---- MODULE Spec2Model ----
(***************************************************************************)
(* Travel-planning backend: catalog lookup, selection parsing, budget      *)
(* allocation and the planning strategies (monolithic, specialist-routed,  *)
(* tool-based, mandate-based) that sequence them.                          *)
(*                                                                         *)
(* Conventions of the model                                                *)
(*  - Money is an integer number of thousandths of a dollar (D(650) is     *)
(*    $650.00).  Catalog prices and the budgets drawn here are whole       *)
(*    dollars, so every product with 0.60, 0.40, 0.15, 0.10 is exact: the  *)
(*    model is the code's arithmetic over the rationals; the rounding of   *)
(*    IEEE doubles is not modelled.                                        *)
(*  - A Python str is a sequence of tokens; a token is a word with a case  *)
(*    flag, so that lower() and the substring test `a in b` are computed,  *)
(*    not assumed.                                                         *)
(*  - Optional[X] is a sequence of length 0 (None) or 1.                   *)
(***************************************************************************)
EXTENDS Integers, Sequences, FiniteSets, TLC

VARIABLES
    request,              \* the request being served (TravelRequest fields)
    strategy,             \* which entry point serves it
    pc,                   \* position of the coroutine / call
    events,               \* events yielded by a streaming generator, in order
    total_price,          \* HotelOption.total_price of the shared MOCK_HOTELS objects
    flights,              \* local: candidate flights
    hotels,               \* local: candidate hotels (references into MOCK_HOTELS)
    activities,           \* local: candidate activities
    response_text,        \* local: text produced by the reasoning call(s)
    selected_flight,      \* local: Optional[FlightOption]
    selected_hotel,       \* local: Optional[HotelOption]
    selected_activities,  \* local: List[ActivityOption]
    response,             \* Optional[response object] returned / carried by 'result'
    calls,                \* reasoning calls issued so far, in order
    mock_wallet_balance,  \* AP2Orchestrator.mock_wallet_balance
    execution_logs,       \* AP2Orchestrator / StrandsOrchestrator.execution_logs
    mandates,             \* local: AP2 intent / cart / payment mandate / receipt
    log_i,                \* local: how many of execution_logs the current loop has yielded
    current_chunk,        \* local: reasoning text not yet streamed as a log
    tool_result,          \* Optional: what calculate_budget_breakdown last returned
    costs,                \* local: Optional cost breakdown computed before the budget call
    parse_in,             \* parser harness: [text, names] handed to the parsers
    parse_out,            \* parser harness: what the parsers returned
    suspended,            \* Optional: the frame of a second plan_trip coroutine that is not running
    lookups,              \* lookup harness: the catalog lookups made so far, with what they returned
    hybrid_service,       \* hybrid_data._hybrid_service, the process-wide catalog holder
    constructed,          \* the HybridDataService instances constructed so far
    callers               \* threads inside get_hybrid_service: position and local result

vars == << request, strategy, pc, events, total_price, flights, hotels, activities,
           response_text, selected_flight, selected_hotel, selected_activities,
           response, calls, mock_wallet_balance, execution_logs, mandates,
           log_i, current_chunk, tool_result, costs, parse_in, parse_out,
           suspended, lookups, hybrid_service, constructed, callers >>

\* the state that only the concurrency and lookup specifications change
aux == << suspended, lookups, hybrid_service, constructed, callers >>

-----------------------------------------------------------------------------
(* Basic values *)

None == << >>
Some(x) == << x >>
IsSome(o) == Len(o) = 1

D(dollars) == dollars * 1000

\* x * (pct / 100) for a float factor written as a percentage
Pct(x, pct) == (x * pct) \div 100

Min(a, b) == IF a <= b THEN a ELSE b

\* Python slice s[a:b] for 0 <= a, 0 <= b
Slice(s, a, b) == IF a + 1 > Min(b, Len(s)) THEN << >> ELSE SubSeq(s, a + 1, Min(b, Len(s)))

RECURSIVE SumSeq(_)
SumSeq(s) == IF s = << >> THEN 0 ELSE Head(s) + SumSeq(Tail(s))

-----------------------------------------------------------------------------
(* Strings *)

W(s) == [w |-> s, up |-> TRUE]      \* a word with upper-case letters in it
L(s) == [w |-> s, up |-> FALSE]     \* an all-lower-case word or a punctuation mark
Comma == L(",")
Space == L(" ")
Newline == L("\n")
Whitespace == { Space, Newline }

\* str.lower()
Lower(str) == [i \in 1..Len(str) |-> [str[i] EXCEPT !.up = FALSE]]

\* Python `a in b` for two str
Contains(a, b) ==
    \E k \in 0..(Len(b) - Len(a)) : \A i \in 1..Len(a) : b[k + i] = a[i]

\* str.split(",")[0]
SplitComma0(str) ==
    IF \E i \in 1..Len(str) : str[i] = Comma
    THEN SubSeq(str, 1, (CHOOSE i \in 1..Len(str) :
                            /\ str[i] = Comma
                            /\ \A j \in 1..(i - 1) : str[j] # Comma) - 1)
    ELSE str

\* str.strip()
RECURSIVE Strip(_)
Strip(str) ==
    IF str = << >> THEN str
    ELSE IF Head(str) \in Whitespace THEN Strip(Tail(str))
    ELSE IF str[Len(str)] \in Whitespace THEN Strip(SubSeq(str, 1, Len(str) - 1))
    ELSE str

\* a variant of DestKey that does not strip the blanks around the city name
DestKeyUnstripped(destination) == SplitComma0(Lower(destination))

\* destination.lower().split(",")[0].strip()
DestKey(destination) == Strip(SplitComma0(Lower(destination)))

-----------------------------------------------------------------------------
(* Catalog tables (mock_data.py) *)

DictGet(d, k, default) == IF k \in DOMAIN d THEN d[k] ELSE default

Flight(airline, dollars) == [airline |-> airline, price |-> D(dollars)]
Hotel(name, dollars) == [name |-> name, price_per_night |-> D(dollars)]
Activity(name, dollars, category) ==
    [name |-> name, cost |-> D(dollars), category |-> category]

MOCK_FLIGHTS ==
    ( << L("tokyo") >> :>
        << Flight(<< W("japan airlines") >>, 650),
           Flight(<< W("ana") >>, 720),
           Flight(<< W("united airlines") >>, 580),
           Flight(<< W("premium business class"), Space, L("-"), Space, W("ana") >>, 1250) >> )
    @@ ( << L("paris") >> :> << Flight(<< W("air france") >>, 450) >> )
    @@ ( << L("london") >> :> << Flight(<< W("british airways") >>, 380) >> )

\* total_price is the mutable field: it lives in the variable total_price
MOCK_HOTELS ==
    ( << L("tokyo") >> :>
        << Hotel(<< W("shibuya grand hotel") >>, 120),
           Hotel(<< W("shinjuku budget inn") >>, 85),
           Hotel(<< W("tokyo luxury suites") >>, 250),
           Hotel(<< W("asakusa traditional ryokan") >>, 150),
           Hotel(<< W("imperial suite - ritz-carlton tokyo") >>, 450) >> )
    @@ ( << L("paris") >> :> << Hotel(<< W("eiffel view hotel") >>, 180) >> )
    @@ ( << L("london") >> :> << Hotel(<< W("westminster inn") >>, 150) >> )

MOCK_ACTIVITIES ==
    ( << L("tokyo") >> :>
        ( ( << L("tech") >> :>
              << Activity(<< W("akihabara tech district tour") >>, 30, "tech"),
                 Activity(<< W("teamlab borderless digital art museum") >>, 35, "tech"),
                 Activity(<< W("sony explorascience") >>, 25, "tech") >> )
          @@ ( << L("food") >> :>
              << Activity(<< W("tsukiji outer market food tour") >>, 50, "food"),
                 Activity(<< W("ramen making class") >>, 65, "food"),
                 Activity(<< W("sushi masterclass at toyosu market") >>, 80, "food"),
                 Activity(<< W("private michelin star chef experience") >>, 250, "food") >> )
          @@ ( << L("temples") >> :>
              << Activity(<< W("senso-ji temple visit") >>, 0, "temples"),
                 Activity(<< W("meiji shrine experience") >>, 0, "temples"),
                 Activity(<< W("guided temple tour") >>, 45, "temples") >> )
          @@ ( << L("nature") >> :>
              << Activity(<< W("mount fuji day trip") >>, 120, "nature"),
                 Activity(<< W("shinjuku gyoen national garden") >>, 5, "nature") >> )
          @@ ( << L("sightseeing") >> :>
              << Activity(<< W("tokyo skytree observation deck") >>, 28, "sightseeing"),
                 Activity(<< W("shibuya crossing & harajuku walking tour") >>, 20, "sightseeing"),
                 Activity(<< W("imperial palace east gardens") >>, 0, "sightseeing") >> ) ) )
    @@ ( << L("paris") >> :>
        ( << L("sightseeing") >> :>
              << Activity(<< W("eiffel tower visit") >>, 30, "sightseeing") >> ) )
    @@ ( << L("london") >> :>
        ( << L("sightseeing") >> :>
              << Activity(<< W("big ben & westminster abbey") >>, 25, "sightseeing") >> ) )

AllHotels == UNION { { MOCK_HOTELS[k][i] : i \in 1..Len(MOCK_HOTELS[k]) } : k \in DOMAIN MOCK_HOTELS }

-----------------------------------------------------------------------------
(* Catalog lookup (mock_data.py, reached through hybrid_data.py) *)

\* sorted(seq, key=price, reverse=rev): stable
SortedByPrice(seq, keyOf, rev) ==
    LET n == Len(seq)
        before(j, i) ==
            \/ (IF rev THEN keyOf[j] > keyOf[i] ELSE keyOf[j] < keyOf[i])
            \/ (keyOf[j] = keyOf[i] /\ j < i)
        rank(i) == 1 + Cardinality({ j \in 1..n : before(j, i) })
    IN  [r \in 1..n |-> seq[CHOOSE i \in 1..n : rank(i) = r]]

mock_get_flights(destination, budget_preference) ==
    LET dest_key == DestKey(destination)
        fl == DictGet(MOCK_FLIGHTS, dest_key, MOCK_FLIGHTS[<< L("tokyo") >>])
        key == [i \in 1..Len(fl) |-> fl[i].price]
    IN  IF budget_preference = "budget" THEN Slice(SortedByPrice(fl, key, FALSE), 0, 2)
        ELSE IF budget_preference = "luxury" THEN Slice(SortedByPrice(fl, key, TRUE), 0, 2)
        ELSE fl

\* the hotel objects get_hotels writes total_price into
HotelsOf(destination) ==
    DictGet(MOCK_HOTELS, DestKey(destination), MOCK_HOTELS[<< L("tokyo") >>])

\* a variant of SetTotalPrice that prices a hotel only the first time it is looked up
SetTotalPriceOnce(tp, destination, nights) ==
    LET hs == HotelsOf(destination)
    IN  [h \in AllHotels |->
            IF (\E i \in 1..Len(hs) : hs[i] = h) /\ tp[h] = 0
            THEN h.price_per_night * nights ELSE tp[h]]

\* for hotel in hotels: hotel.total_price = hotel.price_per_night * nights
SetTotalPrice(tp, destination, nights) ==
    LET hs == HotelsOf(destination)
    IN  [h \in AllHotels |->
            IF \E i \in 1..Len(hs) : hs[i] = h THEN h.price_per_night * nights ELSE tp[h]]

\* the list get_hotels returns (references to the shared objects)
mock_get_hotels(destination, budget_preference) ==
    LET hs == HotelsOf(destination)
        key == [i \in 1..Len(hs) |-> hs[i].price_per_night]
    IN  IF budget_preference = "budget" THEN Slice(SortedByPrice(hs, key, FALSE), 0, 2)
        ELSE IF budget_preference = "luxury" THEN Slice(SortedByPrice(hs, key, TRUE), 0, 2)
        ELSE Slice(SortedByPrice(hs, key, FALSE), 1, 3)

RECURSIVE ExtendByInterest(_, _)
ExtendByInterest(activities_db, interests) ==
    IF interests = << >> THEN << >>
    ELSE Slice(DictGet(activities_db, Lower(Head(interests)), << >>), 0, 2)
         \o ExtendByInterest(activities_db, Tail(interests))

mock_get_activities(destination, interests, max_count) ==
    LET activities_db ==
            DictGet(MOCK_ACTIVITIES, DestKey(destination), MOCK_ACTIVITIES[<< L("tokyo") >>])
    IN  Slice(ExtendByInterest(activities_db, interests), 0, max_count)

calculate_daily_food_budget(duration_days, budget_level) ==
    LET daily_rate == IF budget_level = "budget" THEN D(30)
                      ELSE IF budget_level = "mid-range" THEN D(60)
                      ELSE IF budget_level = "luxury" THEN D(120)
                      ELSE D(60)
    IN  daily_rate * duration_days

calculate_misc_costs(duration_days) == duration_days * D(25)

\* hybrid_data.py: without a cache file the service falls back to mock_data
get_flights(destination, preference) == mock_get_flights(destination, preference)
get_hotels(destination, preference) == mock_get_hotels(destination, preference)
get_activities(destination, interests, max_count) ==
    mock_get_activities(destination, interests, max_count)

-----------------------------------------------------------------------------
(* Selection parser (multi_agent_orchestrator.py) *)

\* a variant of FirstIndex that keeps scanning and returns the last index with pred[i]
LastIndex(pred) ==
    IF \E i \in DOMAIN pred : pred[i]
    THEN CHOOSE i \in DOMAIN pred : pred[i] /\ \A j \in DOMAIN pred : pred[j] => j <= i
    ELSE 0

\* the first index i with pred[i], else 0
FirstIndex(pred) ==
    IF \E i \in DOMAIN pred : pred[i]
    THEN CHOOSE i \in DOMAIN pred : pred[i] /\ \A j \in DOMAIN pred : pred[j] => i <= j
    ELSE 0

_parse_flight_from_response(resp, fl) ==
    LET response_lower == Lower(resp)
        hit == FirstIndex([i \in 1..Len(fl) |-> Contains(Lower(fl[i].airline), response_lower)])
    IN  IF hit # 0 THEN Some(fl[hit])
        ELSE IF fl # << >> THEN Some(fl[1]) ELSE None

_parse_hotel_from_response(resp, hs) ==
    LET response_lower == Lower(resp)
        hit == FirstIndex([i \in 1..Len(hs) |-> Contains(Lower(hs[i].name), response_lower)])
    IN  IF hit # 0 THEN Some(hs[hit])
        ELSE IF hs # << >> THEN Some(hs[1]) ELSE None

\* a variant of _parse_activities_from_response whose fallback returns the whole list
_parse_activities_fallback_all(resp, acts) ==
    LET response_lower == Lower(resp)
        Named(a) == Contains(Lower(a.name), response_lower)
        selected == Slice(SelectSeq(acts, Named), 0, 6)
    IN  IF selected # << >> THEN selected ELSE acts

\* a variant of _parse_activities_from_response that keeps every named activity
_parse_activities_uncut(resp, acts) ==
    LET response_lower == Lower(resp)
        Named(a) == Contains(Lower(a.name), response_lower)
        selected == SelectSeq(acts, Named)
    IN  IF selected # << >> THEN selected ELSE Slice(acts, 0, 6)

_parse_activities_from_response(resp, acts) ==
    LET response_lower == Lower(resp)
        Named(a) == Contains(Lower(a.name), response_lower)
        selected == Slice(SelectSeq(acts, Named), 0, 6)
    IN  IF selected # << >> THEN selected ELSE Slice(acts, 0, 6)

-----------------------------------------------------------------------------
(* Budget allocation, as written at each call site *)

FlightCost(sf, travelers) == IF IsSome(sf) THEN sf[1].price * travelers ELSE 0
HotelCost(sh, tp) == IF IsSome(sh) THEN tp[sh[1]] ELSE 0
ActivitiesCost(acts, travelers) == SumSeq([i \in 1..Len(acts) |-> acts[i].cost]) * travelers

\* a variant of TotalCost that leaves the miscellaneous cost out of the sum
TotalCostWithoutMisc(cb) == cb.flights + cb.accommodation + cb.activities + cb.food

\* total_cost = flight_cost + hotel_cost + activities_cost + food_cost + misc_cost
TotalCost(cb) == cb.flights + cb.accommodation + cb.activities + cb.food + cb.misc

\* a variant of WithinBudget with a strict comparison
WithinBudgetStrict(total_cost, budget) == total_cost < budget

\* total_cost <= request.budget
WithinBudget(total_cost, budget) == total_cost <= budget

\* SingleTravelAgent._parse_agent_response: food and misc from the daily-rate helpers
single_cost_breakdown(req, sf, sh, acts, tp) ==
    [ flights       |-> FlightCost(sf, req.travelers),
      accommodation |-> HotelCost(sh, tp),
      activities    |-> ActivitiesCost(acts, req.travelers),
      food          |-> calculate_daily_food_budget(req.duration_days, req.hotel_preference),
      misc          |-> calculate_misc_costs(req.duration_days) ]

\* a variant of plan_trip_cost_breakdown that splits the positive remainder evenly
plan_trip_cost_breakdown_even(req, sf, sh, acts, tp) ==
    LET flight_cost == FlightCost(sf, req.travelers)
        hotel_cost == HotelCost(sh, tp)
        activities_cost == ActivitiesCost(acts, req.travelers)
        remaining == req.budget - (flight_cost + hotel_cost + activities_cost)
    IN  [ flights       |-> flight_cost,
          accommodation |-> hotel_cost,
          activities    |-> activities_cost,
          food          |-> IF remaining > 0 THEN Pct(remaining, 50) ELSE Pct(req.budget, 15),
          misc          |-> IF remaining > 0 THEN Pct(remaining, 50) ELSE Pct(req.budget, 10) ]

\* MultiAgentOrchestrator.plan_trip
plan_trip_cost_breakdown(req, sf, sh, acts, tp) ==
    LET flight_cost == FlightCost(sf, req.travelers)
        hotel_cost == HotelCost(sh, tp)
        activities_cost == ActivitiesCost(acts, req.travelers)
        remaining == req.budget - (flight_cost + hotel_cost + activities_cost)
    IN  [ flights       |-> flight_cost,
          accommodation |-> hotel_cost,
          activities    |-> activities_cost,
          food          |-> IF remaining > 0 THEN Pct(remaining, 60) ELSE Pct(req.budget, 15),
          misc          |-> IF remaining > 0 THEN Pct(remaining, 40) ELSE Pct(req.budget, 10) ]

\* calculate_budget_breakdown (the Strands tool)
calculate_budget_breakdown(total_budget, flight_cost, hotel_cost, activities_cost) ==
    LET remaining == total_budget - (flight_cost + hotel_cost + activities_cost)
    IN  [ flights       |-> flight_cost,
          accommodation |-> hotel_cost,
          activities    |-> activities_cost,
          food          |-> Pct(remaining, 60),
          misc          |-> Pct(remaining, 40) ]

\* a variant of multi_stream_cost_breakdown with plan_trip's fallback for remaining <= 0
multi_stream_cost_breakdown_floored(req, sf, sh, acts, tp) ==
    LET flight_cost == FlightCost(sf, req.travelers)
        hotel_cost == HotelCost(sh, tp)
        activities_cost == ActivitiesCost(acts, req.travelers)
        remaining == req.budget - (flight_cost + hotel_cost + activities_cost)
    IN  [ flights       |-> flight_cost,
          accommodation |-> hotel_cost,
          activities    |-> activities_cost,
          food          |-> IF remaining > 0 THEN Pct(remaining, 60) ELSE Pct(req.budget, 15),
          misc          |-> IF remaining > 0 THEN Pct(remaining, 40) ELSE Pct(req.budget, 10) ]

\* MultiAgentOrchestrator.plan_trip_stream
multi_stream_cost_breakdown(req, sf, sh, acts, tp) ==
    LET flight_cost == FlightCost(sf, req.travelers)
        hotel_cost == HotelCost(sh, tp)
        activities_cost == ActivitiesCost(acts, req.travelers)
        remaining == req.budget - (flight_cost + hotel_cost + activities_cost)
    IN  [ flights       |-> flight_cost,
          accommodation |-> hotel_cost,
          activities    |-> activities_cost,
          food          |-> Pct(remaining, 60),
          misc          |-> Pct(remaining, 40) ]

\* StrandsOrchestrator.plan_trip_stream
strands_stream_cost_breakdown(req, sf, sh, acts, tp) ==
    LET flight_cost == FlightCost(sf, req.travelers)
        hotel_cost == HotelCost(sh, tp)
        activities_cost == ActivitiesCost(acts, req.travelers)
        remaining == req.budget - (flight_cost + hotel_cost + activities_cost)
    IN  [ flights       |-> flight_cost,
          accommodation |-> hotel_cost,
          activities    |-> activities_cost,
          food          |-> Pct(remaining, 60),
          misc          |-> Pct(remaining, 40) ]

TravelItinerary(req, cb, sf, sh, acts) ==
    [ destination    |-> req.destination,
      duration_days  |-> req.duration_days,
      total_budget   |-> req.budget,
      actual_cost    |-> TotalCost(cb),
      within_budget  |-> WithinBudget(TotalCost(cb), req.budget),
      flights        |-> sf,
      hotel          |-> sh,
      activities     |-> acts,
      cost_breakdown |-> cb ]

-----------------------------------------------------------------------------
(* Requests and initial state *)

Destinations ==
    { << W("tokyo"), Comma, Space, W("japan") >>, << W("paris") >>, << W("nowhereville") >> }
Durations == { 3, 5 }
Budgets == { D(1020), D(3000) }
Travelers == { 1, 2 }
Preferences == { "budget", "mid-range", "luxury" }
InterestLists == { << >>, << << W("temples") >>, << L("food") >>, << L("tech") >>, << L("nature") >> >> }

\* every request here passes TravelRequest's field validation
Requests ==
    [ destination : Destinations, duration_days : Durations, budget : Budgets,
      travelers : Travelers, interests : InterestLists, hotel_preference : Preferences ]

Strategies == { "single", "multi", "multi_stream", "strands_stream", "ap2_stream" }

\* AP2_WALLET_BALANCE, default "10000.00"; 961.36 is the cart total of a 1020 budget
Wallets == { D(10000), D(1000), D(961) + 360 }

\* request.interests or ["sightseeing"]
InterestsOrDefault(req) ==
    IF req.interests = << >> THEN << << L("sightseeing") >> >> ELSE req.interests

NoParse == [text |-> << >>, names |-> << >>]
NoMandates == [intent |-> None, cart |-> None, mandate |-> None, receipt |-> None]

Locals0 ==
    /\ events = << >>
    /\ flights = << >>
    /\ hotels = << >>
    /\ activities = << >>
    /\ response_text = << >>
    /\ selected_flight = None
    /\ selected_hotel = None
    /\ selected_activities = << >>
    /\ response = None
    /\ calls = << >>
    /\ execution_logs = << >>
    /\ mandates = NoMandates
    /\ log_i = 0
    /\ current_chunk = << >>
    /\ tool_result = None
    /\ costs = None

Aux0 ==
    /\ suspended = None
    /\ lookups = << >>
    /\ hybrid_service = None
    /\ constructed = << >>
    /\ callers = << >>

Init ==
    /\ request \in Requests
    /\ strategy \in Strategies
    /\ pc = "start"
    /\ total_price = [h \in AllHotels |-> 0]
    /\ mock_wallet_balance \in (IF strategy = "ap2_stream" THEN Wallets ELSE { D(10000) })
    /\ Locals0
    /\ Aux0
    /\ parse_in = NoParse
    /\ parse_out = << >>

\* positions at which no statement of a strategy's try block is running or will
\* run: returned, closed by the consumer, request not yet validated, rejected
OutsideTry == { "done", "closed", "received", "rejected" }

LogEvent(agent) == [type |-> "log", agent_name |-> agent]
ResultEvent == [type |-> "result", agent_name |-> ""]
ErrorEvent == [type |-> "error", agent_name |-> ""]

\* the response objects; errors / warnings are the monolithic response's lists
Response(success, status, itinerary, errors, warnings, message) ==
    [ success |-> success, status |-> status, itinerary |-> itinerary,
      errors |-> errors, warnings |-> warnings, message |-> message ]

\* str(e) of an exception a collaborator (reasoning service, data source) raises
Exceptions == { "ServiceUnavailable" }

\* texts the reasoning service may answer with, given the candidates' names
ReplyTexts(names) ==
    { << >> }
    \cup (IF names = << >> THEN {} ELSE { names[Len(names)] })
    \cup (IF Len(names) < 2 THEN {} ELSE { names[2] \o << Comma, Space >> \o names[1] })

RECURSIVE JoinNames(_)
JoinNames(names) ==
    IF names = << >> THEN << >>
    ELSE IF Len(names) = 1 THEN names[1]
    ELSE names[1] \o << Comma, Space >> \o JoinNames(Tail(names))

-----------------------------------------------------------------------------
(* Monolithic strategy: SingleTravelAgent.plan_trip *)

\* SingleTravelAgent.plan_trip, lines 58-107: _build_monolithic_prompt,
\* _call_bedrock, _parse_agent_response, status
AgentPlanTrip ==
    /\ LET fl == get_flights(request.destination, "luxury")
           sf == IF fl # << >> THEN Some(fl[1]) ELSE None
           tp == SetTotalPrice(total_price, request.destination, request.duration_days)
           hs == get_hotels(request.destination, request.hotel_preference)
           sh == IF hs # << >> THEN Some(hs[Len(hs)]) ELSE None
           acts == get_activities(request.destination, InterestsOrDefault(request), 10)
           cb == single_cost_breakdown(request, sf, sh, acts, tp)
           itinerary == TravelItinerary(request, cb, sf, sh, Slice(acts, 0, 5))
           exceeded_budget == itinerary.actual_cost > itinerary.total_budget
           errors == (IF exceeded_budget THEN << "Budget exceeded" >> ELSE << >>)
                     \o (IF ~IsSome(itinerary.flights) THEN << "Failed to find suitable flights" >> ELSE << >>)
                     \o (IF ~IsSome(itinerary.hotel) THEN << "Failed to find suitable accommodation" >> ELSE << >>)
           warnings == IF Len(itinerary.activities) = 0 THEN << "No activities planned" >> ELSE << >>
           status == IF errors # << >> THEN "failure"
                     ELSE IF warnings # << >> THEN "partial" ELSE "success"
       IN  /\ total_price' = tp
           /\ flights' = fl
           /\ hotels' = hs
           /\ activities' = acts
           /\ selected_flight' = sf
           /\ selected_hotel' = sh
           /\ selected_activities' = Slice(acts, 0, 5)
           /\ response' = Some(Response(TRUE, status, Some(itinerary), errors, warnings,
                                      << "Single agent completed trip planning (with limitations)" >>))
    /\ calls' = Append(calls, "bedrock")

\* SingleTravelAgent.plan_trip, lines 109-117: _call_bedrock raises and the
\* except clause returns the failure response
AgentPlanTripRaises ==
    /\ calls' = Append(calls, "bedrock")
    /\ \E e \in Exceptions :
          response' = Some(Response(FALSE, "error", None, << e >>, << >>,
                                    << "Single agent failed: ", e >>))
    /\ UNCHANGED << total_price, flights, hotels, activities, selected_flight,
                    selected_hotel, selected_activities >>

SinglePlanTrip ==
    /\ strategy = "single" /\ pc = "start"
    /\ AgentPlanTrip
    /\ pc' = "done"
    /\ UNCHANGED << request, strategy, events, response_text, mock_wallet_balance,
                    execution_logs, mandates, log_i, current_chunk, tool_result, costs,
                    parse_in, parse_out, aux >>

SinglePlanTripRaises ==
    /\ strategy = "single" /\ pc = "start"
    /\ AgentPlanTripRaises
    /\ pc' = "done"
    /\ UNCHANGED << request, strategy, events, response_text, mock_wallet_balance,
                    execution_logs, mandates, log_i, current_chunk, tool_result, costs,
                    parse_in, parse_out, aux >>

-----------------------------------------------------------------------------
(* Specialist-routed strategy, synchronous: MultiAgentOrchestrator.plan_trip *)

FlightNames(fl) == [i \in 1..Len(fl) |-> fl[i].airline]
ItemNames(items) == [i \in 1..Len(items) |-> items[i].name]

MultiErrorResponse(e) ==
    Response(FALSE, "error", None, << >>, << >>, << "Real orchestration failed: ", e >>)

\* lines 154-198: lookups, then the FlightExpert call is issued
MultiLookup ==
    /\ strategy = "multi" /\ pc = "start"
    /\ flights' = get_flights(request.destination, "mid-range")
    /\ total_price' = SetTotalPrice(total_price, request.destination, request.duration_days)
    /\ hotels' = get_hotels(request.destination, request.hotel_preference)
    /\ activities' = get_activities(request.destination, InterestsOrDefault(request), 10)
    /\ calls' = Append(calls, "FlightExpert")
    /\ pc' = "await_flight"
    /\ UNCHANGED << request, strategy, events, response_text, selected_flight, selected_hotel,
                    selected_activities, response, mock_wallet_balance, execution_logs,
                    mandates, log_i, current_chunk, tool_result, costs, parse_in, parse_out, aux >>

\* lines 199-237: the flight reply is parsed and logged, the HotelExpert call is issued
MultiFlightReply ==
    /\ strategy = "multi" /\ pc = "await_flight"
    /\ \E text \in ReplyTexts(FlightNames(flights)) :
         LET sf == _parse_flight_from_response(text, flights)
         IN  /\ response_text' = text
             /\ selected_flight' = sf
             /\ IF IsSome(sf)
                THEN /\ calls' = Append(calls, "HotelExpert")
                     /\ pc' = "await_hotel"
                     /\ UNCHANGED response
                ELSE \* selected_flight.airline on None
                     /\ response' = Some(MultiErrorResponse("AttributeError"))
                     /\ pc' = "done"
                     /\ UNCHANGED calls
    /\ UNCHANGED << request, strategy, events, total_price, flights, hotels, activities,
                    selected_hotel, selected_activities, mock_wallet_balance, execution_logs,
                    mandates, log_i, current_chunk, tool_result, costs, parse_in, parse_out, aux >>

\* lines 238-280: the hotel reply is parsed and logged, the ActivityExpert call is issued
MultiHotelReply ==
    /\ strategy = "multi" /\ pc = "await_hotel"
    /\ \E text \in ReplyTexts(ItemNames(hotels)) :
         LET sh == _parse_hotel_from_response(text, hotels)
         IN  /\ response_text' = text
             /\ selected_hotel' = sh
             /\ IF IsSome(sh)
                THEN /\ calls' = Append(calls, "ActivityExpert")
                     /\ pc' = "await_activity"
                     /\ UNCHANGED response
                ELSE \* selected_hotel.name on None
                     /\ response' = Some(MultiErrorResponse("AttributeError"))
                     /\ pc' = "done"
                     /\ UNCHANGED calls
    /\ UNCHANGED << request, strategy, events, total_price, flights, hotels, activities,
                    selected_flight, selected_activities, mock_wallet_balance, execution_logs,
                    mandates, log_i, current_chunk, tool_result, costs, parse_in, parse_out, aux >>

\* lines 281-332: the activity reply is parsed, the costs are computed, the
\* BudgetCoordinator call is issued
MultiActivityReply ==
    /\ strategy = "multi" /\ pc = "await_activity"
    /\ \E text \in ReplyTexts(ItemNames(activities)) \cup { JoinNames(ItemNames(activities)) } :
         LET acts == _parse_activities_from_response(text, activities)
         IN  /\ response_text' = text
             /\ selected_activities' = acts
             /\ costs' = Some(plan_trip_cost_breakdown(request, selected_flight, selected_hotel,
                                                       acts, total_price))
    /\ calls' = Append(calls, "BudgetCoordinator")
    /\ pc' = "await_budget"
    /\ UNCHANGED << request, strategy, events, total_price, flights, hotels, activities,
                    selected_flight, selected_hotel, response, mock_wallet_balance,
                    execution_logs, mandates, log_i, current_chunk, tool_result,
                    parse_in, parse_out, aux >>

\* lines 333-387: the itinerary is built and the response returned
MultiBudgetReply ==
    /\ strategy = "multi" /\ pc = "await_budget"
    /\ response' = Some(Response(TRUE, "success",
                                 Some(TravelItinerary(request, costs[1], selected_flight,
                                                      selected_hotel, selected_activities)),
                                 << >>, << >>, << "Multi-agent orchestration successful" >>))
    /\ pc' = "done"
    /\ UNCHANGED << request, strategy, events, total_price, flights, hotels, activities,
                    response_text, selected_flight, selected_hotel, selected_activities, calls,
                    mock_wallet_balance, execution_logs, mandates, log_i, current_chunk,
                    tool_result, costs, parse_in, parse_out, aux >>

\* a variant of MultiCallRaises that issues the failed call once more
MultiCallRaisesRetry ==
    /\ strategy = "multi"
    /\ pc \in { "await_flight", "await_hotel", "await_activity", "await_budget" }
    /\ Len(calls) < 6
    /\ calls' = Append(calls, calls[Len(calls)])
    /\ UNCHANGED << request, strategy, pc, events, total_price, flights, hotels, activities,
                    response_text, selected_flight, selected_hotel, selected_activities,
                    response, mock_wallet_balance, execution_logs, mandates, log_i,
                    current_chunk, tool_result, costs, parse_in, parse_out, aux >>

\* lines 389-407: an awaited route_request raises
MultiCallRaises ==
    /\ strategy = "multi"
    /\ pc \in { "await_flight", "await_hotel", "await_activity", "await_budget" }
    /\ \E e \in Exceptions : response' = Some(MultiErrorResponse(e))
    /\ pc' = "done"
    /\ UNCHANGED << request, strategy, events, total_price, flights, hotels, activities,
                    response_text, selected_flight, selected_hotel, selected_activities, calls,
                    mock_wallet_balance, execution_logs, mandates, log_i, current_chunk,
                    tool_result, costs, parse_in, parse_out, aux >>

-----------------------------------------------------------------------------
(* Specialist-routed strategy, streaming: MultiAgentOrchestrator.plan_trip_stream *)

MaxChunks == 2

\* the yields that only report progress: pc -> << agent_name, next pc >>
MultiStreamLogs ==
    ( "start" :> << "System", "ms_search_flights" >> )
    @@ ( "ms_search_flights" :> << "FlightAgent", "ms_get_flights" >> )
    @@ ( "ms_search_hotels" :> << "HotelAgent", "ms_get_hotels" >> )
    @@ ( "ms_search_activities" :> << "ActivityAgent", "ms_get_activities" >> )
    @@ ( "ms_budget" :> << "BudgetAgent", "ms_supervisor" >> )
    @@ ( "ms_supervisor" :> << "TravelSupervisor", "ms_invoke" >> )
    @@ ( "ms_complete" :> << "TravelSupervisor", "ms_parse" >> )
    @@ ( "ms_ready" :> << "System", "ms_result" >> )

MultiStreamLog ==
    /\ strategy = "multi_stream" /\ pc \in DOMAIN MultiStreamLogs
    /\ events' = Append(events, LogEvent(MultiStreamLogs[pc][1]))
    /\ pc' = MultiStreamLogs[pc][2]
    /\ UNCHANGED << request, strategy, total_price, flights, hotels, activities, response_text,
                    selected_flight, selected_hotel, selected_activities, response, calls,
                    mock_wallet_balance, execution_logs, mandates, log_i, current_chunk,
                    tool_result, costs, parse_in, parse_out, aux >>

\* lines 432-439
MultiStreamGetFlights ==
    /\ strategy = "multi_stream" /\ pc = "ms_get_flights"
    /\ flights' = get_flights(request.destination, request.hotel_preference)
    /\ events' = Append(events, LogEvent("FlightAgent"))
    /\ pc' = "ms_search_hotels"
    /\ UNCHANGED << request, strategy, total_price, hotels, activities, response_text,
                    selected_flight, selected_hotel, selected_activities, response, calls,
                    mock_wallet_balance, execution_logs, mandates, log_i, current_chunk,
                    tool_result, costs, parse_in, parse_out, aux >>

\* lines 448-455
MultiStreamGetHotels ==
    /\ strategy = "multi_stream" /\ pc = "ms_get_hotels"
    /\ total_price' = SetTotalPrice(total_price, request.destination, request.duration_days)
    /\ hotels' = get_hotels(request.destination, request.hotel_preference)
    /\ events' = Append(events, LogEvent("HotelAgent"))
    /\ pc' = "ms_search_activities"
    /\ UNCHANGED << request, strategy, flights, activities, response_text,
                    selected_flight, selected_hotel, selected_activities, response, calls,
                    mock_wallet_balance, execution_logs, mandates, log_i, current_chunk,
                    tool_result, costs, parse_in, parse_out, aux >>

\* lines 464-471
MultiStreamGetActivities ==
    /\ strategy = "multi_stream" /\ pc = "ms_get_activities"
    /\ activities' = get_activities(request.destination, InterestsOrDefault(request), 10)
    /\ events' = Append(events, LogEvent("ActivityAgent"))
    /\ pc' = "ms_budget"
    /\ UNCHANGED << request, strategy, total_price, flights, hotels, response_text,
                    selected_flight, selected_hotel, selected_activities, response, calls,
                    mock_wallet_balance, execution_logs, mandates, log_i, current_chunk,
                    tool_result, costs, parse_in, parse_out, aux >>

\* lines 489-537: the streaming reasoning call is issued
MultiStreamInvoke ==
    /\ strategy = "multi_stream" /\ pc = "ms_invoke"
    /\ calls' = Append(calls, "bedrock_stream")
    /\ response_text' = << >>
    /\ current_chunk' = << >>
    /\ log_i' = 0
    /\ pc' = "ms_chunks"
    /\ UNCHANGED << request, strategy, events, total_price, flights, hotels, activities,
                    selected_flight, selected_hotel, selected_activities, response,
                    mock_wallet_balance, execution_logs, mandates, tool_result, costs,
                    parse_in, parse_out, aux >>

\* text fragments the reasoning stream may deliver
ChunkTexts ==
    { << Newline >> }
    \cup (IF flights = << >> THEN {} ELSE { flights[Len(flights)].airline })
    \cup (IF hotels = << >> THEN {} ELSE { hotels[Len(hotels)].name \o << L(".") >> })
    \cup (IF activities = << >> THEN {}
          ELSE { << Space >> \o JoinNames(ItemNames(activities)) \o << L("!") >> })

\* any(punct in text for punct in ['.', '!', '?', '\n'])
HasPunct(text) ==
    \E punct \in { L("."), L("!"), L("?"), Newline } : Contains(<< punct >>, text)

\* lines 540-559: one content_block_delta of the reasoning stream
MultiStreamChunk ==
    /\ strategy = "multi_stream" /\ pc = "ms_chunks" /\ log_i < MaxChunks
    /\ \E text \in ChunkTexts :
         /\ response_text' = response_text \o text
         /\ IF HasPunct(text) /\ Strip(current_chunk \o text) # << >>
            THEN /\ events' = Append(events, LogEvent("TravelSupervisor"))
                 /\ current_chunk' = << >>
            ELSE /\ current_chunk' = current_chunk \o text
                 /\ UNCHANGED events
    /\ log_i' = log_i + 1
    /\ UNCHANGED << request, strategy, pc, total_price, flights, hotels, activities,
                    selected_flight, selected_hotel, selected_activities, response, calls,
                    mock_wallet_balance, execution_logs, mandates, tool_result, costs,
                    parse_in, parse_out, aux >>

\* lines 561-568: the stream is exhausted; the text left over is yielded
MultiStreamEnd ==
    /\ strategy = "multi_stream" /\ pc = "ms_chunks"
    /\ IF Strip(current_chunk) # << >>
       THEN events' = Append(events, LogEvent("TravelSupervisor"))
       ELSE UNCHANGED events
    /\ pc' = "ms_complete"
    /\ UNCHANGED << request, strategy, total_price, flights, hotels, activities, response_text,
                    selected_flight, selected_hotel, selected_activities, response, calls,
                    mock_wallet_balance, execution_logs, mandates, log_i, current_chunk,
                    tool_result, costs, parse_in, parse_out, aux >>

\* lines 577-587
MultiStreamParse ==
    /\ strategy = "multi_stream" /\ pc = "ms_parse"
    /\ selected_flight' = _parse_flight_from_response(response_text, flights)
    /\ selected_hotel' = _parse_hotel_from_response(response_text, hotels)
    /\ selected_activities' = _parse_activities_from_response(response_text, activities)
    /\ events' = Append(events, LogEvent("TravelSupervisor"))
    /\ pc' = "ms_costs"
    /\ UNCHANGED << request, strategy, total_price, flights, hotels, activities, response_text,
                    response, calls, mock_wallet_balance, execution_logs, mandates, log_i,
                    current_chunk, tool_result, costs, parse_in, parse_out, aux >>

\* lines 589-605
MultiStreamCosts ==
    /\ strategy = "multi_stream" /\ pc = "ms_costs"
    /\ costs' = Some(multi_stream_cost_breakdown(request, selected_flight, selected_hotel,
                                                 selected_activities, total_price))
    /\ events' = Append(events, LogEvent("BudgetAgent"))
    /\ pc' = "ms_ready"
    /\ UNCHANGED << request, strategy, total_price, flights, hotels, activities, response_text,
                    selected_flight, selected_hotel, selected_activities, response, calls,
                    mock_wallet_balance, execution_logs, mandates, log_i, current_chunk,
                    tool_result, parse_in, parse_out, aux >>

\* a variant of MultiStreamResult that yields one more log after the result
MultiStreamResultThenLog ==
    /\ strategy = "multi_stream" /\ pc = "ms_result"
    /\ response' = Some(Response(TRUE, "success",
                                 Some(TravelItinerary(request, costs[1], selected_flight,
                                                      selected_hotel, selected_activities)),
                                 << >>, << >>, << "completed successfully" >>))
    /\ events' = events \o << ResultEvent, LogEvent("Orchestrator") >>
    /\ pc' = "done"
    /\ UNCHANGED << request, strategy, total_price, flights, hotels, activities, response_text,
                    selected_flight, selected_hotel, selected_activities, calls,
                    mock_wallet_balance, execution_logs, mandates, log_i, current_chunk,
                    tool_result, costs, parse_in, parse_out, aux >>

\* lines 615-651
MultiStreamResult ==
    /\ strategy = "multi_stream" /\ pc = "ms_result"
    /\ response' = Some(Response(TRUE, "success",
                                 Some(TravelItinerary(request, costs[1], selected_flight,
                                                      selected_hotel, selected_activities)),
                                 << >>, << >>, << "completed successfully" >>))
    /\ events' = Append(events, ResultEvent)
    /\ pc' = "done"
    /\ UNCHANGED << request, strategy, total_price, flights, hotels, activities, response_text,
                    selected_flight, selected_hotel, selected_activities, calls,
                    mock_wallet_balance, execution_logs, mandates, log_i, current_chunk,
                    tool_result, costs, parse_in, parse_out, aux >>

\* lines 653-658: any step of the try block raises
MultiStreamRaises ==
    /\ strategy = "multi_stream" /\ pc \notin OutsideTry
    /\ events' = Append(events, ErrorEvent)
    /\ pc' = "done"
    /\ UNCHANGED << request, strategy, total_price, flights, hotels, activities, response_text,
                    selected_flight, selected_hotel, selected_activities, response, calls,
                    mock_wallet_balance, execution_logs, mandates, log_i, current_chunk,
                    tool_result, costs, parse_in, parse_out, aux >>

-----------------------------------------------------------------------------
(* Tool-based strategy: StrandsOrchestrator.plan_trip_stream *)

MaxToolCalls == 2

_analyze_trip_complexity(req) ==
    LET duration_score == IF req.duration_days > 7 THEN 2
                          ELSE IF req.duration_days > 4 THEN 1 ELSE 0
        travelers_score == IF req.travelers > 4 THEN 2
                           ELSE IF req.travelers > 2 THEN 1 ELSE 0
        interests_count == Len(req.interests)
        interests_score == IF interests_count > 3 THEN 2
                           ELSE IF interests_count > 1 THEN 1 ELSE 0
        budget_score == IF req.budget < D(2000) THEN 1 ELSE 0
        complexity_score == duration_score + travelers_score + interests_score + budget_score
    IN  [ complexity_score |-> complexity_score,
          strategy |-> IF complexity_score >= 3 THEN "swarm" ELSE "sequential" ]

StrandsLogs ==
    ( "start" :> << "MetaAgent", "ss_complexity" >> )
    @@ ( "ss_complexity" :> << "MetaAgent", "ss_tools" >> )
    @@ ( "ss_tools" :> << "MetaAgent", "ss_init" >> )
    @@ ( "ss_init" :> << "StrandsCoordinator", "ss_agent" >> )
    @@ ( "ss_analyzing" :> << "StrandsCoordinator", "ss_run" >> )
    @@ ( "ss_meta" :> << "MetaAgent", "ss_result" >> )

\* lines 255-298 and 331-336, 398-403: the yields that only report progress
\* (the first resets execution_logs)
StrandsLog ==
    /\ strategy = "strands_stream" /\ pc \in DOMAIN StrandsLogs
    /\ execution_logs' = IF pc = "start" THEN << >> ELSE execution_logs
    /\ events' = Append(events, LogEvent(StrandsLogs[pc][1]))
    /\ pc' = StrandsLogs[pc][2]
    /\ UNCHANGED << request, strategy, total_price, flights, hotels, activities, response_text,
                    selected_flight, selected_hotel, selected_activities, response, calls,
                    mock_wallet_balance, mandates, log_i, current_chunk, tool_result, costs,
                    parse_in, parse_out, aux >>

\* lines 300-336: the coordinator is created; swarm mode is announced for a complex trip
StrandsAgent ==
    /\ strategy = "strands_stream" /\ pc = "ss_agent"
    /\ IF _analyze_trip_complexity(request).strategy = "swarm"
       THEN /\ events' = Append(events, LogEvent("MetaAgent"))
            /\ pc' = "ss_analyzing"
       ELSE /\ events' = Append(events, LogEvent("StrandsCoordinator"))
            /\ pc' = "ss_run"
    /\ UNCHANGED << request, strategy, total_price, flights, hotels, activities, response_text,
                    selected_flight, selected_hotel, selected_activities, response, calls,
                    mock_wallet_balance, execution_logs, mandates, log_i, current_chunk,
                    tool_result, costs, parse_in, parse_out, aux >>

\* _log_tool_use, twice per tool call
ToolLogs(tool_name) == << LogEvent(tool_name), LogEvent(tool_name) >>

\* lines 131-198: the coordinator calls a search tool
StrandsSearchTool ==
    /\ strategy = "strands_stream" /\ pc = "ss_run" /\ Len(calls) < MaxToolCalls
    /\ \E tool \in { "FlightTool", "HotelTool", "ActivityTool" } :
         /\ calls' = Append(calls, tool)
         /\ execution_logs' = execution_logs \o ToolLogs(tool)
         /\ total_price' = IF tool = "HotelTool"
                           THEN SetTotalPrice(total_price, request.destination,
                                              request.duration_days)
                           ELSE total_price
    /\ UNCHANGED << request, strategy, pc, events, flights, hotels, activities, response_text,
                    selected_flight, selected_hotel, selected_activities, response,
                    mock_wallet_balance, mandates, log_i, current_chunk, tool_result, costs,
                    parse_in, parse_out, aux >>

\* lines 201-236: the coordinator calls calculate_budget_breakdown with costs of its choosing
StrandsBudgetTool ==
    /\ strategy = "strands_stream" /\ pc = "ss_run" /\ Len(calls) < MaxToolCalls
    /\ \E flight_cost \in { D(580) * request.travelers, request.budget + D(100) } :
         LET cb == calculate_budget_breakdown(request.budget, flight_cost, 0, 0)
         IN  tool_result' = Some([ total_budget |-> request.budget,
                                   breakdown |-> cb,
                                   total_cost |-> TotalCost(cb),
                                   within_budget |-> WithinBudget(TotalCost(cb), request.budget) ])
    /\ calls' = Append(calls, "BudgetTool")
    /\ execution_logs' = execution_logs \o ToolLogs("BudgetTool")
    /\ UNCHANGED << request, strategy, pc, events, total_price, flights, hotels, activities,
                    response_text, selected_flight, selected_hotel, selected_activities,
                    response, mock_wallet_balance, mandates, log_i, current_chunk, costs,
                    parse_in, parse_out, aux >>

\* line 355: coordinator(query) returns
StrandsAgentReturns ==
    /\ strategy = "strands_stream" /\ pc = "ss_run"
    /\ log_i' = 0
    /\ pc' = "ss_flush"
    /\ UNCHANGED << request, strategy, events, total_price, flights, hotels, activities,
                    response_text, selected_flight, selected_hotel, selected_activities,
                    response, calls, mock_wallet_balance, execution_logs, mandates,
                    current_chunk, tool_result, costs, parse_in, parse_out, aux >>

\* lines 357-360: for log in self.execution_logs: yield log
StrandsYieldToolLog ==
    /\ strategy = "strands_stream" /\ pc = "ss_flush" /\ log_i < Len(execution_logs)
    /\ events' = Append(events, execution_logs[log_i + 1])
    /\ log_i' = log_i + 1
    /\ UNCHANGED << request, strategy, pc, total_price, flights, hotels, activities,
                    response_text, selected_flight, selected_hotel, selected_activities,
                    response, calls, mock_wallet_balance, execution_logs, mandates,
                    current_chunk, tool_result, costs, parse_in, parse_out, aux >>

\* lines 362-368
StrandsComplete ==
    /\ strategy = "strands_stream" /\ pc = "ss_flush" /\ log_i = Len(execution_logs)
    /\ events' = Append(events, LogEvent("StrandsCoordinator"))
    /\ pc' = "ss_costs"
    /\ UNCHANGED << request, strategy, total_price, flights, hotels, activities, response_text,
                    selected_flight, selected_hotel, selected_activities, response, calls,
                    mock_wallet_balance, execution_logs, mandates, log_i, current_chunk,
                    tool_result, costs, parse_in, parse_out, aux >>

\* lines 370-394: lookups, positional selection, costs
StrandsCosts ==
    /\ strategy = "strands_stream" /\ pc = "ss_costs"
    /\ LET fl == get_flights(request.destination, request.hotel_preference)
           tp == SetTotalPrice(total_price, request.destination, request.duration_days)
           hs == get_hotels(request.destination, request.hotel_preference)
           acts == get_activities(request.destination, InterestsOrDefault(request), 6)
           sf == IF fl # << >> THEN Some(fl[1]) ELSE None
           sh == IF hs # << >> THEN Some(hs[1]) ELSE None
       IN  /\ flights' = fl
           /\ total_price' = tp
           /\ hotels' = hs
           /\ activities' = acts
           /\ selected_flight' = sf
           /\ selected_hotel' = sh
           /\ selected_activities' = Slice(acts, 0, 6)
           /\ costs' = Some(strands_stream_cost_breakdown(request, sf, sh, Slice(acts, 0, 6), tp))
    /\ events' = Append(events, LogEvent("BudgetOptimizer"))
    /\ pc' = "ss_meta"
    /\ UNCHANGED << request, strategy, response_text, response, calls, mock_wallet_balance,
                    execution_logs, mandates, log_i, current_chunk, tool_result,
                    parse_in, parse_out, aux >>

\* lines 405-439
StrandsResult ==
    /\ strategy = "strands_stream" /\ pc = "ss_result"
    /\ response' = Some(Response(TRUE, "success",
                                 Some(TravelItinerary(request, costs[1], selected_flight,
                                                      selected_hotel, selected_activities)),
                                 << >>, << >>, << "AWS Strands orchestration completed" >>))
    /\ events' = Append(events, ResultEvent)
    /\ pc' = "done"
    /\ UNCHANGED << request, strategy, total_price, flights, hotels, activities, response_text,
                    selected_flight, selected_hotel, selected_activities, calls,
                    mock_wallet_balance, execution_logs, mandates, log_i, current_chunk,
                    tool_result, costs, parse_in, parse_out, aux >>

\* lines 441-446: any step of the try block raises
StrandsRaises ==
    /\ strategy = "strands_stream" /\ pc \notin OutsideTry
    /\ events' = Append(events, ErrorEvent)
    /\ pc' = "done"
    /\ UNCHANGED << request, strategy, total_price, flights, hotels, activities, response_text,
                    selected_flight, selected_hotel, selected_activities, response, calls,
                    mock_wallet_balance, execution_logs, mandates, log_i, current_chunk,
                    tool_result, costs, parse_in, parse_out, aux >>

-----------------------------------------------------------------------------
(* Mandate-based strategy: AP2Orchestrator.plan_trip_with_ap2_stream *)

\* _create_intent_mandate
_create_intent_mandate(req) ==
    [ intent_id |-> "intent_1", estimated_total |-> req.budget ]

\* _build_cart_mandate
_build_cart_mandate(intent, req) ==
    LET flight_price == Pct(req.budget, 35)
        hotel_price == Pct(req.budget, 30)
        activities_price == Pct(req.budget, 20)
        subtotal == flight_price + hotel_price + activities_price
        taxes == Pct(subtotal, 8)
        fees == D(25)
    IN  [ cart_id |-> "cart_1", intent_id |-> intent.intent_id,
          items |-> << flight_price, hotel_price, activities_price >>,
          subtotal |-> subtotal, taxes |-> taxes, fees |-> fees,
          total |-> subtotal + taxes + fees ]

\* a variant of _request_payment_authorization that authorizes only a total
\* strictly below the balance
_request_payment_authorization_strict(cart, balance) ==
    LET authorized == cart.total < balance
    IN  [ mandate_id |-> "mandate_1", cart_id |-> cart.cart_id, amount |-> cart.total,
          status |-> IF authorized THEN "authorized" ELSE "denied" ]

\* _request_payment_authorization
_request_payment_authorization(cart, balance) ==
    LET authorized == cart.total <= balance
    IN  [ mandate_id |-> "mandate_1", cart_id |-> cart.cart_id, amount |-> cart.total,
          status |-> IF authorized THEN "authorized" ELSE "denied" ]

\* _execute_transaction: the receipt
_execute_transaction(mandate, cart) ==
    [ receipt_id |-> "receipt_1", mandate_id |-> mandate.mandate_id,
      amount_paid |-> mandate.amount, items_purchased |-> cart.items,
      status |-> "completed" ]

\* the 'AP2 Payment Mandate' log: its data carries the mandate, with its status
PaymentEvent(mandate) ==
    [type |-> "log", agent_name |-> "AP2 Payment Mandate", status |-> mandate.status]

AP2Locals == << flights, hotels, activities, response_text, selected_flight, selected_hotel,
                selected_activities, calls, current_chunk, tool_result, costs >>

\* lines 350-359: the header is logged
AP2Header ==
    /\ strategy = "ap2_stream" /\ pc = "start"
    /\ execution_logs' = << LogEvent("AP2 Protocol") >>
    /\ log_i' = 0
    /\ pc' = "ap_header"
    /\ UNCHANGED << request, strategy, events, total_price, response, mock_wallet_balance,
                    mandates, parse_in, parse_out, aux >>
    /\ UNCHANGED AP2Locals

\* for log in self.execution_logs: yield log (lines 362-363, 370-371, 378-379, 386-387, 403-404)
AP2YieldLog ==
    /\ strategy = "ap2_stream"
    /\ pc \in { "ap_header", "ap_intent", "ap_cart", "ap_payment", "ap_receipt" }
    /\ log_i < Len(execution_logs)
    /\ events' = Append(events, execution_logs[log_i + 1])
    /\ log_i' = log_i + 1
    /\ UNCHANGED << request, strategy, pc, total_price, response, mock_wallet_balance,
                    execution_logs, mandates, parse_in, parse_out, aux >>
    /\ UNCHANGED AP2Locals

\* a variant of AP2Intent that records into the list it has just yielded from
AP2IntentUncleared ==
    /\ strategy = "ap2_stream" /\ pc = "ap_header" /\ log_i = Len(execution_logs)
    /\ mandates' = [mandates EXCEPT !.intent = Some(_create_intent_mandate(request))]
    /\ execution_logs' = Append(execution_logs, LogEvent("AP2 Intent Mandate"))
    /\ log_i' = 0
    /\ pc' = "ap_intent"
    /\ UNCHANGED << request, strategy, events, total_price, response, mock_wallet_balance,
                    parse_in, parse_out, aux >>
    /\ UNCHANGED AP2Locals

\* lines 365-369: Step 1
AP2Intent ==
    /\ strategy = "ap2_stream" /\ pc = "ap_header" /\ log_i = Len(execution_logs)
    /\ mandates' = [mandates EXCEPT !.intent = Some(_create_intent_mandate(request))]
    /\ execution_logs' = << LogEvent("AP2 Intent Mandate") >>
    /\ log_i' = 0
    /\ pc' = "ap_intent"
    /\ UNCHANGED << request, strategy, events, total_price, response, mock_wallet_balance,
                    parse_in, parse_out, aux >>
    /\ UNCHANGED AP2Locals

\* lines 373-377: Step 2
AP2Cart ==
    /\ strategy = "ap2_stream" /\ pc = "ap_intent" /\ log_i = Len(execution_logs)
    /\ mandates' = [mandates EXCEPT !.cart = Some(_build_cart_mandate(mandates.intent[1], request))]
    /\ execution_logs' = << LogEvent("AP2 Cart Mandate") >>
    /\ log_i' = 0
    /\ pc' = "ap_cart"
    /\ UNCHANGED << request, strategy, events, total_price, response, mock_wallet_balance,
                    parse_in, parse_out, aux >>
    /\ UNCHANGED AP2Locals

\* lines 381-385: Step 3
AP2Authorize ==
    /\ strategy = "ap2_stream" /\ pc = "ap_cart" /\ log_i = Len(execution_logs)
    /\ LET mandate == _request_payment_authorization(mandates.cart[1], mock_wallet_balance)
       IN  /\ mandates' = [mandates EXCEPT !.mandate = Some(mandate)]
           /\ execution_logs' = << PaymentEvent(mandate) >>
    /\ log_i' = 0
    /\ pc' = "ap_payment"
    /\ UNCHANGED << request, strategy, events, total_price, response, mock_wallet_balance,
                    parse_in, parse_out, aux >>
    /\ UNCHANGED AP2Locals

\* lines 389-398: payment denied
AP2Denied ==
    /\ strategy = "ap2_stream" /\ pc = "ap_payment" /\ log_i = Len(execution_logs)
    /\ mandates.mandate[1].status # "authorized"
    /\ execution_logs' = << >>
    /\ events' = Append(events, ErrorEvent)
    /\ pc' = "done"
    /\ UNCHANGED << request, strategy, total_price, response, mock_wallet_balance, mandates,
                    log_i, parse_in, parse_out, aux >>
    /\ UNCHANGED AP2Locals

\* a variant of AP2Execute that does not look at the mandate's status
AP2ExecuteUnchecked ==
    /\ strategy = "ap2_stream" /\ pc = "ap_payment" /\ log_i = Len(execution_logs)
    /\ mandates' = [mandates EXCEPT !.receipt =
                        Some(_execute_transaction(mandates.mandate[1], mandates.cart[1]))]
    /\ mock_wallet_balance' = mock_wallet_balance - mandates.mandate[1].amount
    /\ execution_logs' = << LogEvent("AP2 Transaction"), LogEvent("AP2 Receipt") >>
    /\ log_i' = 0
    /\ pc' = "ap_receipt"
    /\ UNCHANGED << request, strategy, events, total_price, response, parse_in, parse_out, aux >>
    /\ UNCHANGED AP2Locals

\* lines 389-402: Step 4, the transaction is executed and the wallet debited
AP2Execute ==
    /\ strategy = "ap2_stream" /\ pc = "ap_payment" /\ log_i = Len(execution_logs)
    /\ mandates.mandate[1].status = "authorized"
    /\ mandates' = [mandates EXCEPT !.receipt =
                        Some(_execute_transaction(mandates.mandate[1], mandates.cart[1]))]
    /\ mock_wallet_balance' = mock_wallet_balance - mandates.mandate[1].amount
    /\ execution_logs' = << LogEvent("AP2 Transaction"), LogEvent("AP2 Receipt") >>
    /\ log_i' = 0
    /\ pc' = "ap_receipt"
    /\ UNCHANGED << request, strategy, events, total_price, response, parse_in, parse_out, aux >>
    /\ UNCHANGED AP2Locals

\* lines 406-438: the result is yielded
AP2Result ==
    /\ strategy = "ap2_stream" /\ pc = "ap_receipt" /\ log_i = Len(execution_logs)
    /\ execution_logs' = << >>
    /\ response' = Some([ success |-> TRUE,
                          total_cost |-> mandates.cart[1].total,
                          amount_paid |-> mandates.receipt[1].amount_paid,
                          wallet_balance |-> mock_wallet_balance ])
    /\ events' = Append(events, ResultEvent)
    /\ pc' = "done"
    /\ UNCHANGED << request, strategy, total_price, mock_wallet_balance, mandates, log_i,
                    parse_in, parse_out, aux >>
    /\ UNCHANGED AP2Locals

\* lines 440-445: a step of the try block raises. Every step records its events
\* last (the wallet debit between the two records of step 4 cannot raise), and
\* while the records are yielded the generator only yields and sleeps, so a
\* raise finds no recorded event that has not been yielded.
AP2Raises ==
    /\ strategy = "ap2_stream" /\ pc \notin OutsideTry
    /\ log_i = Len(execution_logs)
    /\ events' = Append(events, ErrorEvent)
    /\ pc' = "done"
    /\ UNCHANGED << request, strategy, total_price, response, mock_wallet_balance,
                    execution_logs, mandates, log_i, parse_in, parse_out, aux >>
    /\ UNCHANGED AP2Locals

\* the steps of the three streaming generators
NextStream ==
    \/ MultiStreamLog
    \/ MultiStreamGetFlights
    \/ MultiStreamGetHotels
    \/ MultiStreamGetActivities
    \/ MultiStreamInvoke
    \/ MultiStreamChunk
    \/ MultiStreamEnd
    \/ MultiStreamParse
    \/ MultiStreamCosts
    \/ MultiStreamResult
    \/ MultiStreamRaises
    \/ StrandsLog
    \/ StrandsAgent
    \/ StrandsSearchTool
    \/ StrandsBudgetTool
    \/ StrandsAgentReturns
    \/ StrandsYieldToolLog
    \/ StrandsComplete
    \/ StrandsCosts
    \/ StrandsResult
    \/ StrandsRaises
    \/ AP2Header
    \/ AP2YieldLog
    \/ AP2Intent
    \/ AP2Cart
    \/ AP2Authorize
    \/ AP2Denied
    \/ AP2Execute
    \/ AP2Result
    \/ AP2Raises

Next ==
    \/ SinglePlanTrip
    \/ SinglePlanTripRaises
    \/ MultiLookup
    \/ MultiFlightReply
    \/ MultiHotelReply
    \/ MultiActivityReply
    \/ MultiBudgetReply
    \/ MultiCallRaises
    \/ NextStream

Spec == Init /\ [][Next]_vars

-----------------------------------------------------------------------------
(* The selection parser on its own: every text and candidate list within the
   bounds is handed to each of the three parsers. *)

MaxCands == 7
MaxTextLen == 3

\* candidate names as in MOCK_FLIGHTS["tokyo"]: one is a substring of the other
CandidateNames ==
    { << W("ana") >>, << W("premium business class"), Space, L("-"), Space, W("ana") >> }

\* what a response text is put together from
TextPieces ==
    { << W("ana") >>, << L("ana") >>, << W("premium business class"), Space, L("-"), Space >> }

RECURSIVE Concat(_)
Concat(ss) == IF ss = << >> THEN << >> ELSE Head(ss) \o Concat(Tail(ss))

ParseTexts == { Concat(ps) : ps \in UNION { [1..n -> TextPieces] : n \in 0..MaxTextLen } }
ParseNames == UNION { [1..n -> CandidateNames] : n \in 0..MaxCands }

\* candidate objects carrying the names; the price tells equal-named candidates apart
FlightCands(names) == [i \in 1..Len(names) |-> [airline |-> names[i], price |-> D(i)]]
HotelCands(names) == [i \in 1..Len(names) |-> [name |-> names[i], price_per_night |-> D(i)]]
ActivityCands(names) ==
    [i \in 1..Len(names) |-> [name |-> names[i], cost |-> D(i), category |-> "any"]]

InitParse ==
    /\ request = [ destination |-> << W("tokyo") >>, duration_days |-> 3, budget |-> D(3000),
                   travelers |-> 1, interests |-> << >>, hotel_preference |-> "mid-range" ]
    /\ strategy = "parser"
    /\ pc = "parse"
    /\ total_price = [h \in AllHotels |-> 0]
    /\ mock_wallet_balance = D(10000)
    /\ Locals0
    /\ Aux0
    /\ parse_in \in [text : ParseTexts, names : ParseNames]
    /\ parse_out = << >>

ParseUnchanged ==
    UNCHANGED << request, strategy, events, total_price, flights, hotels, activities,
                 response_text, selected_flight, selected_hotel, selected_activities,
                 response, calls, mock_wallet_balance, execution_logs, mandates,
                 log_i, current_chunk, tool_result, costs, parse_in, aux >>

ParseFlight ==
    /\ strategy = "parser" /\ pc = "parse"
    /\ parse_out' = << _parse_flight_from_response(parse_in.text, FlightCands(parse_in.names)) >>
    /\ pc' = "parsed_flight"
    /\ ParseUnchanged

ParseHotel ==
    /\ strategy = "parser" /\ pc = "parse"
    /\ parse_out' = << _parse_hotel_from_response(parse_in.text, HotelCands(parse_in.names)) >>
    /\ pc' = "parsed_hotel"
    /\ ParseUnchanged

ParseActivities ==
    /\ strategy = "parser" /\ pc = "parse"
    /\ parse_out' = << _parse_activities_from_response(parse_in.text,
                                                        ActivityCands(parse_in.names)) >>
    /\ pc' = "parsed_activities"
    /\ ParseUnchanged

NextParse ==
    \/ ParseFlight
    \/ ParseHotel
    \/ ParseActivities

SpecParse == InitParse /\ [][NextParse]_vars

StreamStrategies == { "multi_stream", "strands_stream", "ap2_stream" }

InitStream == Init /\ strategy \in StreamStrategies

\* The consumer keeps resuming the generator, and every awaited collaborator
\* answers or raises: a generator that has not finished takes a further step.
\* This is WF_vars(NextStream) written out: a step of NextStream is possible
\* exactly when pc # "done", because the except clause covers every position.
StreamProgress == []<>(pc = "done") \/ []<><<NextStream>>_vars

SpecStream == InitStream /\ [][NextStream]_vars /\ StreamProgress

-----------------------------------------------------------------------------
(* Monolithic strategy, streaming: generate() of plan_trip_single_agent_stream *)

\* a progress event of the router; step is the position in the pipeline it describes
QuickLog(step) == [type |-> "log", agent_name |-> "Quick Planner", step |-> step]

InitSingleStream ==
    /\ request \in Requests
    /\ strategy = "single_stream"
    /\ pc = "start"
    /\ total_price = [h \in AllHotels |-> 0]
    /\ mock_wallet_balance = D(10000)
    /\ Locals0
    /\ parse_in = NoParse
    /\ parse_out = << >>
    /\ Aux0

\* lines 68-82: the six progress events before the planning call
SingleStreamLog ==
    /\ strategy = "single_stream" /\ pc = "start" /\ log_i < 6
    /\ events' = Append(events, QuickLog(log_i + 1))
    /\ log_i' = log_i + 1
    /\ UNCHANGED << request, strategy, pc, total_price, flights, hotels, activities,
                    response_text, selected_flight, selected_hotel, selected_activities,
                    response, calls, mock_wallet_balance, execution_logs, mandates,
                    current_chunk, tool_result, costs, parse_in, parse_out, aux >>

\* lines 85-89: agent.plan_trip(request) returns a response, with an itinerary
\* or with the failure the agent caught; the 'Calculating total trip cost' event
SingleStreamPlan ==
    /\ strategy = "single_stream" /\ pc = "start" /\ log_i = 6
    /\ (AgentPlanTrip \/ AgentPlanTripRaises)
    /\ events' = Append(events, QuickLog(7))
    /\ pc' = "planned"
    /\ UNCHANGED << request, strategy, response_text, mock_wallet_balance, execution_logs,
                    mandates, log_i, current_chunk, tool_result, costs, parse_in,
                    parse_out, aux >>

\* lines 92-97: the 'Planning complete' event, in one of its three wordings
SingleStreamComplete ==
    /\ strategy = "single_stream" /\ pc = "planned"
    /\ events' = Append(events, QuickLog(8))
    /\ pc' = "complete"
    /\ UNCHANGED << request, strategy, total_price, flights, hotels, activities,
                    response_text, selected_flight, selected_hotel, selected_activities,
                    response, calls, mock_wallet_balance, execution_logs, mandates, log_i,
                    current_chunk, tool_result, costs, parse_in, parse_out, aux >>

\* line 100: the 'result' event with response.model_dump()
SingleStreamResult ==
    /\ strategy = "single_stream" /\ pc = "complete"
    /\ events' = Append(events, ResultEvent)
    /\ pc' = "done"
    /\ UNCHANGED << request, strategy, total_price, flights, hotels, activities,
                    response_text, selected_flight, selected_hotel, selected_activities,
                    response, calls, mock_wallet_balance, execution_logs, mandates, log_i,
                    current_chunk, tool_result, costs, parse_in, parse_out, aux >>

\* lines 85, 102-103: SingleTravelAgent() raises (no client can be built); the
\* generator's own except clause yields the 'error' event
SingleStreamAgentRaises ==
    /\ strategy = "single_stream" /\ pc = "start" /\ log_i = 6
    /\ events' = Append(events, ErrorEvent)
    /\ pc' = "done"
    /\ UNCHANGED << request, strategy, total_price, flights, hotels, activities,
                    response_text, selected_flight, selected_hotel, selected_activities,
                    response, calls, mock_wallet_balance, execution_logs, mandates, log_i,
                    current_chunk, tool_result, costs, parse_in, parse_out, aux >>

NextSingleStream ==
    \/ SingleStreamLog
    \/ SingleStreamPlan
    \/ SingleStreamComplete
    \/ SingleStreamResult
    \/ SingleStreamAgentRaises

SpecSingleStream == InitSingleStream /\ [][NextSingleStream]_vars

-----------------------------------------------------------------------------
(* Two requests served concurrently by MultiAgentOrchestrator.plan_trip.  The *)
(* event loop runs one coroutine at a time and may resume the other one       *)
(* whenever the running one is suspended at an await or has not started or    *)
(* has returned.  Each coroutine has its own frame; the MOCK_HOTELS objects   *)
(* (total_price) belong to the module and are shared.                         *)

\* the locals of the running plan_trip coroutine
Frame ==
    [ request |-> request, pc |-> pc, flights |-> flights, hotels |-> hotels,
      activities |-> activities, response_text |-> response_text,
      selected_flight |-> selected_flight, selected_hotel |-> selected_hotel,
      selected_activities |-> selected_activities, response |-> response,
      calls |-> calls, costs |-> costs ]

\* the requests of the two-request specification
TwoRequests ==
    { r \in Requests : /\ r.budget = D(3000) /\ r.travelers = 1 /\ r.interests = << >>
                       /\ r.hotel_preference = "mid-range" }

InitTwo ==
    /\ Init
    /\ strategy = "multi"
    /\ request \in TwoRequests

\* the second request arrives before the first has returned
SecondRequestArrives ==
    /\ strategy = "multi" /\ suspended = None /\ pc # "done"
    /\ \E req \in TwoRequests :
          suspended' = Some([ request |-> req, pc |-> "start", flights |-> << >>,
                              hotels |-> << >>, activities |-> << >>, response_text |-> << >>,
                              selected_flight |-> None, selected_hotel |-> None,
                              selected_activities |-> << >>, response |-> None,
                              calls |-> << >>, costs |-> None ])
    /\ UNCHANGED << request, strategy, pc, events, total_price, flights, hotels, activities,
                    response_text, selected_flight, selected_hotel, selected_activities,
                    response, calls, mock_wallet_balance, execution_logs, mandates,
                    log_i, current_chunk, tool_result, costs, parse_in, parse_out,
                    lookups, hybrid_service, constructed, callers >>

\* the event loop resumes the other coroutine
SwitchTask ==
    /\ strategy = "multi" /\ IsSome(suspended)
    /\ suspended[1].pc # "done"
    /\ suspended' = Some(Frame)
    /\ request' = suspended[1].request
    /\ pc' = suspended[1].pc
    /\ flights' = suspended[1].flights
    /\ hotels' = suspended[1].hotels
    /\ activities' = suspended[1].activities
    /\ response_text' = suspended[1].response_text
    /\ selected_flight' = suspended[1].selected_flight
    /\ selected_hotel' = suspended[1].selected_hotel
    /\ selected_activities' = suspended[1].selected_activities
    /\ response' = suspended[1].response
    /\ calls' = suspended[1].calls
    /\ costs' = suspended[1].costs
    /\ UNCHANGED << strategy, events, total_price, mock_wallet_balance, execution_logs,
                    mandates, log_i, current_chunk, tool_result, parse_in, parse_out,
                    lookups, hybrid_service, constructed, callers >>

NextTwo ==
    \/ MultiLookup
    \/ MultiFlightReply
    \/ MultiHotelReply
    \/ MultiActivityReply
    \/ MultiBudgetReply
    \/ MultiCallRaises
    \/ SecondRequestArrives
    \/ SwitchTask

SpecTwo == InitTwo /\ [][NextTwo]_vars

-----------------------------------------------------------------------------
(* The catalog lookups on their own: any sequence of get_flights, get_hotels  *)
(* and get_activities calls.  lookups keeps the latest two calls with the     *)
(* lists they returned; a returned hotel list holds references to the         *)
(* MOCK_HOTELS objects, so a hotel's total_price is read from total_price.    *)

LookupDestinations ==
    { << W("tokyo"), Comma, Space, W("japan") >>,
      << Space, W("paris"), Space, Comma, W("france") >>,
      << W("nowhereville") >>,
      << >> }

InitLookup ==
    /\ request = [ destination |-> << W("tokyo") >>, duration_days |-> 3, budget |-> D(3000),
                   travelers |-> 1, interests |-> << >>, hotel_preference |-> "mid-range" ]
    /\ strategy = "lookup"
    /\ pc = "lookup"
    /\ total_price = [h \in AllHotels |-> 0]
    /\ mock_wallet_balance = D(10000)
    /\ Locals0
    /\ parse_in = NoParse
    /\ parse_out = << >>
    /\ Aux0

\* the call returns: the harness keeps it next to the call before it
Returned(fn, destination, nights, preference, interests, result) ==
    /\ lookups' = (IF Len(lookups) = 2 THEN Tail(lookups) ELSE lookups)
                  \o << [ fn |-> fn, destination |-> destination, nights |-> nights,
                          preference |-> preference, interests |-> interests,
                          result |-> result ] >>
    /\ UNCHANGED << request, strategy, pc, events, flights, hotels, activities,
                    response_text, selected_flight, selected_hotel, selected_activities,
                    response, calls, mock_wallet_balance, execution_logs, mandates,
                    log_i, current_chunk, tool_result, costs, parse_in, parse_out,
                    suspended, hybrid_service, constructed, callers >>

LookupFlights ==
    /\ strategy = "lookup"
    /\ \E destination \in LookupDestinations, preference \in Preferences :
          Returned("get_flights", destination, 0, preference, << >>,
                   get_flights(destination, preference))
    /\ UNCHANGED total_price

LookupHotels ==
    /\ strategy = "lookup"
    /\ \E destination \in LookupDestinations, nights \in Durations, preference \in Preferences :
          /\ total_price' = SetTotalPrice(total_price, destination, nights)
          /\ Returned("get_hotels", destination, nights, preference, << >>,
                      get_hotels(destination, preference))

LookupActivities ==
    /\ strategy = "lookup"
    /\ \E destination \in LookupDestinations, interests \in InterestLists :
          Returned("get_activities", destination, 0, "", interests,
                   get_activities(destination, interests, 10))
    /\ UNCHANGED total_price

NextLookup ==
    \/ LookupFlights
    \/ LookupHotels
    \/ LookupActivities

SpecLookup == InitLookup /\ [][NextLookup]_vars

-----------------------------------------------------------------------------
(* The process-wide catalog holder: threads calling get_hybrid_service.  A    *)
(* thread switch can fall between the test of line 217, the construction and  *)
(* store of line 218 and the read of line 219.                                *)

MaxCallers == 3

InitSingleton ==
    /\ request = [ destination |-> << W("tokyo") >>, duration_days |-> 3, budget |-> D(3000),
                   travelers |-> 1, interests |-> << >>, hotel_preference |-> "mid-range" ]
    /\ strategy = "singleton"
    /\ pc = "serving"
    /\ total_price = [h \in AllHotels |-> 0]
    /\ mock_wallet_balance = D(10000)
    /\ Locals0
    /\ parse_in = NoParse
    /\ parse_out = << >>
    /\ Aux0

SingletonUnchanged ==
    UNCHANGED << request, strategy, pc, events, total_price, flights, hotels, activities,
                 response_text, selected_flight, selected_hotel, selected_activities,
                 response, calls, mock_wallet_balance, execution_logs, mandates,
                 log_i, current_chunk, tool_result, costs, parse_in, parse_out,
                 suspended, lookups >>

\* a thread calls get_hybrid_service (directly or through get_flights, get_hotels,
\* get_activities)
CallerEnters ==
    /\ strategy = "singleton" /\ Len(callers) < MaxCallers
    /\ callers' = Append(callers, [pc |-> "test", result |-> None])
    /\ UNCHANGED << hybrid_service, constructed >>
    /\ SingletonUnchanged

\* line 217: if _hybrid_service is None
CallerTests(t) ==
    /\ callers[t].pc = "test"
    /\ callers' = [callers EXCEPT ![t].pc =
                       IF hybrid_service = None THEN "construct" ELSE "return"]
    /\ UNCHANGED << hybrid_service, constructed >>
    /\ SingletonUnchanged

\* line 218: _hybrid_service = HybridDataService(); __init__ loads the cache file
\* if there is one and sets using_real_data accordingly
CallerConstructs(t) ==
    /\ callers[t].pc = "construct"
    /\ \E cached_data \in { None, Some("destinations") } :
          constructed' = Append(constructed, [ cached_data |-> cached_data,
                                               using_real_data |-> cached_data # None ])
    /\ hybrid_service' = Some(Len(constructed) + 1)
    /\ callers' = [callers EXCEPT ![t].pc = "return"]
    /\ SingletonUnchanged

\* line 219: return _hybrid_service
CallerReturns(t) ==
    /\ callers[t].pc = "return"
    /\ callers' = [callers EXCEPT ![t].pc = "done", ![t].result = hybrid_service]
    /\ UNCHANGED << hybrid_service, constructed >>
    /\ SingletonUnchanged

NextSingleton ==
    \/ CallerEnters
    \/ \E t \in 1..Len(callers) : CallerTests(t)
    \/ \E t \in 1..Len(callers) : CallerConstructs(t)
    \/ \E t \in 1..Len(callers) : CallerReturns(t)

SpecSingleton == InitSingleton /\ [][NextSingleton]_vars

-----------------------------------------------------------------------------
(* HybridDataService.get_activities, with and without a cached snapshot.  The *)
(* snapshot is the file real_data_fetcher.py writes; constructed[1] is the    *)
(* service instance, lookups holds the latest call.                           *)

\* cached_data: None without a cache file, else destinations -> cached lists
Snapshots ==
    { None,
      Some( ( << L("tokyo") >> :>
                [ activities |-> << Activity(<< W("tokyo tower") >>, 40, "sightseeing"),
                                    Activity(<< W("sumida river cruise") >>, 55, "sightseeing"),
                                    Activity(<< W("ghibli museum") >>, 20, "sightseeing") >> ] )
            @@ ( << L("paris") >> :> [ activities |-> << >> ] ) ) }

\* interests and max_count arguments of the calls
SnapshotInterests ==
    InterestLists
    \cup { << << L("food") >> >>,
           << << L("surfing") >>, << W("food") >> >>,
           << << L("nature") >>, << L("tech") >>, << L("nature") >> >> }
MaxCounts == { 1, 3, 10 }

\* HybridDataService.get_activities
HybridDataService_get_activities(service, destination, interests, max_count) ==
    LET city_key == DestKey(destination)
    IN  IF /\ service.using_real_data
           /\ city_key \in DOMAIN service.cached_data[1]
           /\ service.cached_data[1][city_key].activities # << >>
        THEN Slice(service.cached_data[1][city_key].activities, 0, max_count)
        ELSE mock_get_activities(destination, interests, max_count)

InitSnapshot ==
    /\ request = [ destination |-> << W("tokyo") >>, duration_days |-> 3, budget |-> D(3000),
                   travelers |-> 1, interests |-> << >>, hotel_preference |-> "mid-range" ]
    /\ strategy = "snapshot"
    /\ pc = "lookup"
    /\ total_price = [h \in AllHotels |-> 0]
    /\ mock_wallet_balance = D(10000)
    /\ Locals0
    /\ parse_in = NoParse
    /\ parse_out = << >>
    /\ suspended = None
    /\ lookups = << >>
    /\ callers = << >>
    /\ \E cached_data \in Snapshots :
          constructed = << [ cached_data |-> cached_data,
                             using_real_data |-> cached_data # None ] >>
    /\ hybrid_service = Some(1)

\* get_activities(destination, interests, max_count) of hybrid_data.py
ServiceGetActivities ==
    /\ strategy = "snapshot"
    /\ \E destination \in LookupDestinations, interests \in SnapshotInterests,
          max_count \in MaxCounts :
          lookups' = << [ fn |-> "get_activities", destination |-> destination,
                          interests |-> interests, max_count |-> max_count,
                          result |-> HybridDataService_get_activities(
                                         constructed[hybrid_service[1]], destination,
                                         interests, max_count) ] >>
    /\ UNCHANGED << request, strategy, pc, events, total_price, flights, hotels, activities,
                    response_text, selected_flight, selected_hotel, selected_activities,
                    response, calls, mock_wallet_balance, execution_logs, mandates,
                    log_i, current_chunk, tool_result, costs, parse_in, parse_out,
                    suspended, hybrid_service, constructed, callers >>

SpecSnapshot == InitSnapshot /\ [][ServiceGetActivities]_vars

-----------------------------------------------------------------------------
(* Cancellation: the consumer stops iterating and the generator is closed.    *)
(* A generator can be closed only where it is suspended: before its first     *)
(* step, or at a yield (the awaits of the generators directly follow a        *)
(* yield).  GeneratorExit and CancelledError are not subclasses of Exception, *)
(* so no `except Exception` clause is entered, and there is no finally.       *)

\* the generator has not started or is suspended at a yield: the step that led
\* to this position ended with a yield
Suspended ==
    /\ pc \notin OutsideTry
    /\ pc = "ms_chunks" => (log_i >= 1 /\ current_chunk = << >>)
    /\ pc = "ms_complete" => Strip(current_chunk) # << >>
    /\ pc = "ss_run" => calls = << >>
    /\ pc \in { "ss_flush", "ap_header", "ap_intent", "ap_cart", "ap_payment", "ap_receipt" }
          => log_i >= 1

\* a variant of Cancel in which the close is handled like an exception of the
\* try block: the except clause yields the 'error' event
CancelCaught ==
    /\ strategy \in StreamStrategies /\ Suspended
    /\ events' = Append(events, ErrorEvent)
    /\ pc' = "closed"
    /\ UNCHANGED << request, strategy, total_price, flights, hotels, activities,
                    response_text, selected_flight, selected_hotel, selected_activities,
                    response, calls, mock_wallet_balance, execution_logs, mandates, log_i,
                    current_chunk, tool_result, costs, parse_in, parse_out, aux >>

\* the generator is closed where it is suspended; no statement of it runs
Cancel ==
    /\ strategy \in StreamStrategies /\ Suspended
    /\ pc' = "closed"
    /\ UNCHANGED << request, strategy, events, total_price, flights, hotels, activities,
                    response_text, selected_flight, selected_hotel, selected_activities,
                    response, calls, mock_wallet_balance, execution_logs, mandates, log_i,
                    current_chunk, tool_result, costs, parse_in, parse_out, aux >>

SpecCancel == InitStream /\ [][NextStream \/ Cancel]_vars

-----------------------------------------------------------------------------
(* Request validation: every route takes its body as a TravelRequest subclass, *)
(* so the Field constraints are checked when the request object is built,      *)
(* before the route's function is entered.                                     *)

\* request bodies as they arrive, with out-of-range field values among them
RawRequests ==
    [ destination : { << W("tokyo"), Comma, Space, W("japan") >> },
      duration_days : { 0, 1, 5, 30, 31 },
      budget : { 0 - D(1), 0, D(3000) },
      travelers : { 0, 1, 10, 11 },
      interests : { << >> },
      hotel_preference : { "mid-range" } ]

\* a variant of TravelRequestValid whose lower bounds are 0 instead of 1
TravelRequestValidFromZero(body) ==
    /\ body.duration_days >= 0 /\ body.duration_days <= 30
    /\ body.budget > 0
    /\ body.travelers >= 0 /\ body.travelers <= 10

\* TravelRequest: duration_days ge=1 le=30, budget gt=0, travelers ge=1 le=10
TravelRequestValid(body) ==
    /\ body.duration_days >= 1 /\ body.duration_days <= 30
    /\ body.budget > 0
    /\ body.travelers >= 1 /\ body.travelers <= 10

InitRaw ==
    /\ request \in RawRequests
    /\ strategy \in Strategies
    /\ pc = "received"
    /\ total_price = [h \in AllHotels |-> 0]
    /\ mock_wallet_balance \in (IF strategy = "ap2_stream" THEN Wallets ELSE { D(10000) })
    /\ Locals0
    /\ Aux0
    /\ parse_in = NoParse
    /\ parse_out = << >>

\* the body is validated: the route's function is entered with the request
\* object, or the body is rejected and the function is never called
ValidateRequest ==
    /\ pc = "received"
    /\ pc' = IF TravelRequestValid(request) THEN "start" ELSE "rejected"
    /\ UNCHANGED << request, strategy, events, total_price, flights, hotels, activities,
                    response_text, selected_flight, selected_hotel, selected_activities,
                    response, calls, mock_wallet_balance, execution_logs, mandates, log_i,
                    current_chunk, tool_result, costs, parse_in, parse_out, aux >>

SpecValidate == InitRaw /\ [][ValidateRequest \/ Next]_vars

-----------------------------------------------------------------------------
(* Two runs of plan_trip_with_ap2_stream on one AP2Orchestrator instance.     *)
(* The event loop can resume the other run wherever the running one is        *)
(* suspended: at a yield or at the asyncio.sleep that follows it, i.e. also   *)
(* between the authorization check of step 3 and the deduction of step 4.     *)
(* mock_wallet_balance belongs to the instance and is shared.  Each run's     *)
(* view of the log list it iterates is kept with its frame: what the other    *)
(* run appends to the instance's list changes which log events a run yields,  *)
(* not its mandates nor the balance.                                          *)

\* the locals of the running generator, and the log list it iterates
AP2Frame ==
    [ request |-> request, pc |-> pc, events |-> events, response |-> response,
      mandates |-> mandates, log_i |-> log_i, execution_logs |-> execution_logs ]

InitAP2Two ==
    /\ Init
    /\ strategy = "ap2_stream"
    /\ request \in TwoRequests \cup { [r EXCEPT !.budget = D(1020)] : r \in TwoRequests }

\* a second run is started on the same instance before the first has finished
AP2SecondRun ==
    /\ strategy = "ap2_stream" /\ suspended = None /\ pc # "done"
    /\ \E req \in { r \in Requests : r.destination = request.destination
                                        /\ r.duration_days = request.duration_days
                                        /\ r.travelers = 1 /\ r.interests = << >>
                                        /\ r.hotel_preference = "mid-range" } :
          suspended' = Some([ request |-> req, pc |-> "start", events |-> << >>,
                              response |-> None, mandates |-> NoMandates, log_i |-> 0,
                              execution_logs |-> << >> ])
    /\ UNCHANGED << request, strategy, pc, events, total_price, flights, hotels, activities,
                    response_text, selected_flight, selected_hotel, selected_activities,
                    response, calls, mock_wallet_balance, execution_logs, mandates,
                    log_i, current_chunk, tool_result, costs, parse_in, parse_out,
                    lookups, hybrid_service, constructed, callers >>

\* the event loop resumes the other run
AP2Switch ==
    /\ strategy = "ap2_stream" /\ IsSome(suspended)
    /\ Suspended \/ pc = "done"
    /\ suspended[1].pc # "done"
    /\ suspended' = Some(AP2Frame)
    /\ request' = suspended[1].request
    /\ pc' = suspended[1].pc
    /\ events' = suspended[1].events
    /\ response' = suspended[1].response
    /\ mandates' = suspended[1].mandates
    /\ log_i' = suspended[1].log_i
    /\ execution_logs' = suspended[1].execution_logs
    /\ UNCHANGED << strategy, total_price, mock_wallet_balance, parse_in, parse_out,
                    lookups, hybrid_service, constructed, callers >>
    /\ UNCHANGED AP2Locals

SpecAP2Two ==
    InitAP2Two /\ [][ \/ AP2Header \/ AP2YieldLog \/ AP2Intent \/ AP2Cart \/ AP2Authorize
                      \/ AP2Denied \/ AP2Execute \/ AP2Result \/ AP2Raises
                      \/ AP2SecondRun \/ AP2Switch ]_vars

-----------------------------------------------------------------------------
(* Properties *)

ItineraryStrategies == { "single", "multi", "multi_stream", "strands_stream" }
Terminal == { "result", "error" }

\* the strategy has returned (or yielded) a response that carries an itinerary
HasItinerary ==
    /\ strategy \in ItineraryStrategies
    /\ IsSome(response)
    /\ IsSome(response[1].itinerary)

TheItinerary == response[1].itinerary[1]

\* the events a stream has emitted are logs, except that the last one is the
\* terminal event once the generator has finished
EventsWellFormed ==
    strategy \in StreamStrategies =>
        /\ \A i \in 1..(Len(events) - 1) : events[i].type = "log"
        /\ pc = "done" => (Len(events) >= 1 /\ events[Len(events)].type \in Terminal)
        /\ pc # "done" => \A i \in 1..Len(events) : events[i].type = "log"

\* once the terminal event is out, the event sequence never changes again
NothingAfterTerminal ==
    [][ (strategy \in StreamStrategies /\ Len(events) >= 1
            /\ events[Len(events)].type \in Terminal) => events' = events ]_vars

\* C1: every stream emits finitely many events: zero or more 'log' events, then
\* exactly one terminal 'result' or 'error' event, and nothing after it, whether
\* every step succeeds or some step raises.
C1_StreamEndsWithOneTerminal ==
    /\ []EventsWellFormed
    /\ NothingAfterTerminal
    /\ (strategy \in StreamStrategies) ~> (pc = "done")

\* a stream that ran to its result after at least seven logs
C1_Witness ==
    /\ strategy = "strands_stream" /\ pc = "done"
    /\ Len(events) >= 8
    /\ events[Len(events)].type = "result"
    /\ \A i \in 1..(Len(events) - 1) : events[i].type = "log"

\* C2: in every itinerary any strategy returns, actual_cost is the sum of the
\* five cost_breakdown values flights, accommodation, activities, food and misc,
\* and cost_breakdown has exactly those five keys.
C2_ActualCostIsSumOfBreakdown ==
    HasItinerary =>
        LET cb == TheItinerary.cost_breakdown
        IN  /\ DOMAIN cb = { "flights", "accommodation", "activities", "food", "misc" }
            /\ TheItinerary.actual_cost =
                   cb["flights"] + cb["accommodation"] + cb["activities"] + cb["food"] + cb["misc"]

C2_Witness ==
    /\ HasItinerary
    /\ strategy = "multi"
    /\ \A k \in DOMAIN TheItinerary.cost_breakdown : TheItinerary.cost_breakdown[k] > 0

\* C3: in every itinerary any strategy returns, within_budget is true exactly
\* when actual_cost <= total_budget; in particular it is true when they are equal.
C3_WithinBudgetIffCostAtMostBudget ==
    HasItinerary =>
        (TheItinerary.within_budget <=> TheItinerary.actual_cost <= TheItinerary.total_budget)

\* the boundary: an itinerary costing exactly the budget
C3_Witness ==
    /\ HasItinerary
    /\ TheItinerary.actual_cost = TheItinerary.total_budget
    /\ TheItinerary.within_budget

\* the strategies that split the remainder of the budget between food and misc
AllocatingStrategies == { "multi", "multi_stream", "strands_stream" }

\* total_budget - (flight_cost + hotel_cost + activities_cost)
Remaining(budget, cb) == budget - (cb.flights + cb.accommodation + cb.activities)

\* food = remaining x 0.60 and misc = remaining x 0.40, hence the whole budget is spent
SplitsRemainder(budget, cb, actual_cost, within_budget) ==
    LET remaining == Remaining(budget, cb)
    IN  /\ 100 * cb.food = 60 * remaining
        /\ 100 * cb.misc = 40 * remaining
        /\ cb.food + cb.misc = remaining
        /\ 2 * cb.food = 3 * cb.misc
        /\ actual_cost = budget
        /\ within_budget

\* food = total_budget x 0.15 and misc = total_budget x 0.10
FallsBack(budget, cb) ==
    /\ 100 * cb.food = 15 * budget
    /\ 100 * cb.misc = 10 * budget

C8_NoRemainderFallsBackTo1510 ==
    /\ (HasItinerary /\ strategy \in AllocatingStrategies
            /\ Remaining(TheItinerary.total_budget, TheItinerary.cost_breakdown) <= 0) =>
          FallsBack(TheItinerary.total_budget, TheItinerary.cost_breakdown)
    /\ (IsSome(tool_result)
            /\ Remaining(tool_result[1].total_budget, tool_result[1].breakdown) <= 0) =>
          FallsBack(tool_result[1].total_budget, tool_result[1].breakdown)

\* a streamed itinerary whose fixed costs exceed the budget and whose food and
\* misc are 60% and 40% of the negative remainder
C8_Witness ==
    /\ HasItinerary /\ strategy = "multi_stream"
    /\ Remaining(TheItinerary.total_budget, TheItinerary.cost_breakdown) < 0
    /\ 100 * TheItinerary.cost_breakdown.food =
          60 * Remaining(TheItinerary.total_budget, TheItinerary.cost_breakdown)
    /\ TheItinerary.cost_breakdown.food < 0

\* C9: whenever flights + hotel + activities exceed total_budget, every strategy
\* that returns an itinerary returns food >= 0, misc >= 0 and within_budget = false.
C9_ShortfallNonNegativeAndOverBudget ==
    (HasItinerary /\ Remaining(TheItinerary.total_budget, TheItinerary.cost_breakdown) < 0) =>
        /\ TheItinerary.cost_breakdown.food >= 0
        /\ TheItinerary.cost_breakdown.misc >= 0
        /\ ~TheItinerary.within_budget

\* the tool-based stream reports a trip it cannot pay for as within budget
C9_Witness ==
    /\ HasItinerary /\ strategy = "strands_stream"
    /\ Remaining(TheItinerary.total_budget, TheItinerary.cost_breakdown) < 0
    /\ TheItinerary.cost_breakdown.misc < 0
    /\ TheItinerary.within_budget

\* C10: in every itinerary, flights = selected flight price x travelers,
\* accommodation = the selected hotel's total_price, and activities = travelers x
\* the sum of the costs of the activities the itinerary lists.
C10_CostsComeFromListedItems ==
    HasItinerary =>
        LET it == TheItinerary
            cb == it.cost_breakdown
        IN  /\ IsSome(it.flights) => cb.flights = it.flights[1].price * request.travelers
            /\ IsSome(it.hotel) => cb.accommodation = total_price[it.hotel[1]]
            /\ cb.activities =
                   request.travelers * SumSeq([i \in 1..Len(it.activities) |-> it.activities[i].cost])

\* the monolithic strategy lists five activities and charges for more
C10_Witness ==
    /\ HasItinerary /\ strategy = "single"
    /\ Len(TheItinerary.activities) = 5
    /\ Len(activities) > 5
    /\ TheItinerary.cost_breakdown.activities >
          request.travelers * SumSeq([i \in 1..5 |-> TheItinerary.activities[i].cost])

-----------------------------------------------------------------------------
(* Properties of the selection parser (under SpecParse) *)

ParsedSingle == pc \in { "parsed_flight", "parsed_hotel" }

\* the candidate list the parser was given
ParseCands ==
    IF pc = "parsed_flight" THEN FlightCands(parse_in.names)
    ELSE IF pc = "parsed_hotel" THEN HotelCands(parse_in.names)
    ELSE ActivityCands(parse_in.names)

\* candidate i's name, lower-cased, occurs in the lower-cased response text
NameMatches(i) == Contains(Lower(parse_in.names[i]), Lower(parse_in.text))

MatchingIndices == { i \in 1..Len(parse_in.names) : NameMatches(i) }

\* C4: for a non-empty candidate list the single-selection parsers return the
\* first candidate, in input order, whose lower-cased name is a substring of the
\* lower-cased response; if none matches they return the first candidate; the
\* result is always an element of the list.
C4_SingleSelectionFirstMatchElseFirst ==
    (ParsedSingle /\ parse_in.names # << >>) =>
        \E k \in 1..Len(parse_in.names) :
            /\ parse_out[1] = Some(ParseCands[k])
            /\ IF MatchingIndices # {}
               THEN k \in MatchingIndices /\ \A j \in MatchingIndices : k <= j
               ELSE k = 1

\* a later candidate matched only through lower-casing is returned
C4_Witness ==
    /\ pc = "parsed_flight"
    /\ Len(parse_in.names) >= 3
    /\ ~NameMatches(1) /\ NameMatches(2) /\ NameMatches(3)
    /\ ~Contains(parse_in.names[2], parse_in.text)
    /\ parse_out[1] = Some(ParseCands[2])

NamesDistinct ==
    \A i, j \in 1..Len(parse_in.names) : parse_in.names[i] = parse_in.names[j] => i = j

\* C5: whenever the response text is the exact name of a candidate C that is not
\* first in a list of distinctly named candidates, the single-selection parser
\* returns C.  (The claim asserts this for every text containing C's name; this
\* is its plainest case.)
C5_NamedCandidateIsReturned ==
    (ParsedSingle /\ NamesDistinct) =>
        \A i \in 2..Len(parse_in.names) :
            parse_in.text = parse_in.names[i] => parse_out[1] = Some(ParseCands[i])

\* the response names 'Premium Business Class - ANA' and the parser returns 'ANA'
C5_Witness ==
    /\ pc = "parsed_flight"
    /\ parse_in.names = << << W("ana") >>,
                           << W("premium business class"), Space, L("-"), Space, W("ana") >> >>
    /\ parse_in.text = parse_in.names[2]
    /\ parse_out[1] = Some(ParseCands[1])

\* C6: the multi-selection parser returns the first min(6, number of matches)
\* matching candidates in input order; with no match, the first 6 candidates (all
\* of them when fewer); for an empty list, the empty list; never more than 6.
C6_MultiSelectionFirstSixMatchesElseFirstSix ==
    pc = "parsed_activities" =>
        LET result == parse_out[1]
            M == MatchingIndices
            \* the r-th matching index in input order
            Nth(r) == CHOOSE m \in M : Cardinality({ j \in M : j < m }) = r - 1
        IN  /\ Len(result) <= 6
            /\ M # {} =>
                  /\ Len(result) = Min(6, Cardinality(M))
                  /\ \A r \in 1..Len(result) : result[r] = ParseCands[Nth(r)]
            /\ M = {} =>
                  /\ Len(result) = Min(6, Len(parse_in.names))
                  /\ \A r \in 1..Len(result) : result[r] = ParseCands[r]
            /\ parse_in.names = << >> => result = << >>

\* seven candidates match and six come back
C6_Witness ==
    /\ pc = "parsed_activities"
    /\ Cardinality(MatchingIndices) >= 7
    /\ Len(parse_out[1]) = 6

-----------------------------------------------------------------------------
(* Two concurrent requests *)

\* a frame whose plan_trip has returned a response that carries an itinerary
FrameHasItinerary(f) ==
    /\ f.pc = "done"
    /\ IsSome(f.response)
    /\ IsSome(f.response[1].itinerary)

\* the itinerary's accommodation cost is the selected hotel's nightly rate
\* times the nights of the request the frame serves
OwnAccommodation(f) ==
    LET it == f.response[1].itinerary[1]
    IN  /\ IsSome(it.hotel)
        /\ it.cost_breakdown.accommodation
               = it.hotel[1].price_per_night * f.request.duration_days

\* C11: with two requests interleaved at the awaits of plan_trip, each returned
\* itinerary's accommodation cost equals its selected hotel's price_per_night
\* times that request's own duration_days: neither request observes what the
\* other wrote.
C11_EachRequestPricedByItsOwnNights ==
    strategy = "multi" =>
        /\ FrameHasItinerary(Frame) => OwnAccommodation(Frame)
        /\ (IsSome(suspended) /\ FrameHasItinerary(suspended[1])) => OwnAccommodation(suspended[1])

\* both requests have returned an itinerary for the same catalog destination,
\* with different durations
C11_Witness ==
    /\ strategy = "multi"
    /\ IsSome(suspended)
    /\ FrameHasItinerary(Frame)
    /\ FrameHasItinerary(suspended[1])
    /\ HotelsOf(request.destination) = HotelsOf(suspended[1].request.destination)
    /\ request.duration_days # suspended[1].request.duration_days

-----------------------------------------------------------------------------
(* Catalog lookups *)

\* the call that has just returned
LastLookup == lookups[Len(lookups)]

\* hotel.total_price as a holder of the returned list reads it now
TotalPriceOf(hotel) == total_price[hotel]

\* C13: at the moment get_hotels(destination, nights, preference) returns, every
\* hotel of the returned list has total_price = price_per_night * nights,
\* whatever hotel lookups were made before.
C13_ReturnedHotelsPricedForTheseNights ==
    (strategy = "lookup" /\ lookups # << >> /\ LastLookup.fn = "get_hotels") =>
        \A i \in 1..Len(LastLookup.result) :
            TotalPriceOf(LastLookup.result[i])
                = LastLookup.result[i].price_per_night * LastLookup.nights

\* a hotel lookup has returned after a lookup of the same hotels with other nights
C13_Witness ==
    /\ strategy = "lookup" /\ Len(lookups) = 2
    /\ lookups[1].fn = "get_hotels" /\ lookups[2].fn = "get_hotels"
    /\ lookups[1].nights # lookups[2].nights
    /\ lookups[2].result # << >>
    /\ \E i \in 1..Len(lookups[1].result) : lookups[1].result[i] = lookups[2].result[1]

\* C12: get_hotels called with nights = 3 and then with nights = 5 for the same
\* destination and preference: compared after both calls have returned, every
\* hotel present in both results has total_price values in the ratio 3 : 5 (the
\* first result still carries the 3-night totals).
C12_TotalsInRatioOfNights ==
    ( /\ strategy = "lookup" /\ Len(lookups) = 2
      /\ lookups[1].fn = "get_hotels" /\ lookups[2].fn = "get_hotels"
      /\ lookups[1].destination = lookups[2].destination
      /\ lookups[1].preference = lookups[2].preference
      /\ lookups[1].nights = 3 /\ lookups[2].nights = 5 ) =>
        \A i \in 1..Len(lookups[1].result), j \in 1..Len(lookups[2].result) :
            lookups[1].result[i] = lookups[2].result[j] =>
                TotalPriceOf(lookups[1].result[i]) * 5 = TotalPriceOf(lookups[2].result[j]) * 3

\* the two calls have returned, with a hotel in both results
C12_Witness ==
    /\ strategy = "lookup" /\ Len(lookups) = 2
    /\ lookups[1].fn = "get_hotels" /\ lookups[2].fn = "get_hotels"
    /\ lookups[1].destination = lookups[2].destination
    /\ lookups[1].preference = lookups[2].preference
    /\ lookups[1].nights = 3 /\ lookups[2].nights = 5
    /\ lookups[1].result # << >>
    /\ lookups[1].result = lookups[2].result

-----------------------------------------------------------------------------
(* Specialist-routed plan_trip: order of the reasoning calls, failure *)

CallOrder == << "FlightExpert", "HotelExpert", "ActivityExpert", "BudgetCoordinator" >>

\* the calls issued so far are the first calls of CallOrder, each once
CallsInOrder ==
    /\ Len(calls) <= Len(CallOrder)
    /\ \A i \in 1..Len(calls) : calls[i] = CallOrder[i]

\* success = false, status = error, no itinerary, the exception text in the message
IsErrorResponse(r) ==
    /\ r.success = FALSE
    /\ r.status = "error"
    /\ r.itinerary = None
    /\ \E e \in Exceptions \cup { "AttributeError" } : r.message = << "Real orchestration failed: ", e >>

-----------------------------------------------------------------------------
(* Monolithic strategy, streaming *)

\* the reasoning call of SingleTravelAgent.plan_trip has raised
ReasoningCallRaised ==
    /\ IsSome(response)
    /\ response[1].success = FALSE

\* C15: in the monolithic strategy's stream, when the reasoning call made by
\* SingleTravelAgent.plan_trip raises, the stream ends with a single terminal
\* 'error' event, and no progress event describing a later pipeline step is
\* emitted after the failure.
C15_FailedReasoningEndsInErrorEvent ==
    (strategy = "single_stream" /\ ReasoningCallRaised) =>
        /\ \A i \in 1..Len(events) : events[i].type = "log" => events[i].step <= 6
        /\ pc = "done" =>
             /\ events # << >>
             /\ events[Len(events)].type = "error"
             /\ \A i \in 1..(Len(events) - 1) : events[i].type = "log"

\* the stream has finished after the reasoning call raised
C15_Witness ==
    /\ strategy = "single_stream" /\ pc = "done"
    /\ ReasoningCallRaised
    /\ calls = << "bedrock" >>

-----------------------------------------------------------------------------
(* Mandate-based strategy *)

\* the wallet balance _request_payment_authorization compared the total with:
\* the balance changes only when _execute_transaction debits the amount
BalanceAtCheck ==
    IF IsSome(mandates.receipt) THEN mock_wallet_balance + mandates.mandate[1].amount
    ELSE mock_wallet_balance

Denied == IsSome(mandates.mandate) /\ mandates.mandate[1].status = "denied"

\* C16: the payment mandate is 'authorized' iff cart.total <= the wallet balance
\* at the time of the check and 'denied' otherwise; once denied, the transaction
\* is never executed, no receipt is produced, the wallet balance stays as it
\* was and the stream ends with an 'error' event; the mandate's status never
\* changes after its creation.
C16_AuthorizedIffTotalWithinBalance ==
    /\ [](strategy = "ap2_stream" /\ IsSome(mandates.mandate) =>
            /\ mandates.mandate[1].status \in { "authorized", "denied" }
            /\ mandates.mandate[1].status = "authorized"
                   <=> mandates.cart[1].total <= BalanceAtCheck
            /\ Denied => /\ mandates.receipt = None
                         /\ \A i \in 1..Len(events) : events[i].type # "result"
                         /\ pc = "done" => events[Len(events)].type = "error")
    /\ [][(strategy = "ap2_stream" /\ IsSome(mandates.mandate)) =>
             /\ mandates'.mandate = mandates.mandate
             /\ Denied => (mock_wallet_balance' = mock_wallet_balance
                           /\ mandates'.receipt = None)]_vars

\* a stream has ended after a denial
C16_Witness ==
    /\ strategy = "ap2_stream" /\ pc = "done"
    /\ Denied
    /\ events[Len(events)].type = "error"
    /\ events[Len(events) - 1] = PaymentEvent(mandates.mandate[1])

MandateSteps ==
    << "AP2 Intent Mandate", "AP2 Cart Mandate", "AP2 Payment Mandate",
       "AP2 Transaction", "AP2 Receipt" >>

\* the events at positions before j
Earlier(j) == 1..(j - 1)

\* C17: in every AP2 stream the mandate steps are reported in the order intent,
\* cart, payment authorization, transaction, receipt, each at most once; a
\* transaction or receipt event comes only after a payment-mandate event with
\* status 'authorized', and a 'result' event only after the receipt event.
C17_MandateStepsInOrder ==
    strategy = "ap2_stream" =>
        \A j \in 1..Len(events) :
            /\ \A k \in 1..Len(MandateSteps) :
                 events[j].agent_name = MandateSteps[k] =>
                    /\ \A i \in Earlier(j) : \A m \in k..Len(MandateSteps) :
                            events[i].agent_name # MandateSteps[m]
                    /\ k > 1 => \E i \in Earlier(j) : events[i].agent_name = MandateSteps[k - 1]
            /\ events[j].agent_name \in { "AP2 Transaction", "AP2 Receipt" } =>
                 \E i \in Earlier(j) : /\ events[i].agent_name = "AP2 Payment Mandate"
                                       /\ events[i].status = "authorized"
            /\ events[j].type = "result" =>
                 \E i \in Earlier(j) : events[i].agent_name = "AP2 Receipt"

\* a complete stream: five steps and the result
C17_Witness ==
    /\ strategy = "ap2_stream" /\ pc = "done"
    /\ Len(events) = 7
    /\ events[7].type = "result"
    /\ events[4].agent_name = "AP2 Payment Mandate" /\ events[4].status = "authorized"
    /\ events[5].agent_name = "AP2 Transaction"
    /\ events[6].agent_name = "AP2 Receipt"

\* the flow has produced its receipt
CompletedFlow ==
    /\ strategy = "ap2_stream"
    /\ IsSome(mandates.receipt)

\* C18: in every completed flow each mandate carries the id and the total of the
\* step before it: cart.intent_id = intent.intent_id and cart.total =
\* intent.estimated_total, mandate.cart_id = cart.cart_id and mandate.amount =
\* cart.total, receipt.mandate_id = mandate.mandate_id and receipt.amount_paid =
\* mandate.amount.
C18_EachStepCarriesIdAndTotal ==
    CompletedFlow =>
        LET intent == mandates.intent[1]
            cart == mandates.cart[1]
            mandate == mandates.mandate[1]
            receipt == mandates.receipt[1]
        IN  /\ cart.intent_id = intent.intent_id
            /\ cart.total = intent.estimated_total
            /\ mandate.cart_id = cart.cart_id
            /\ mandate.amount = cart.total
            /\ receipt.mandate_id = mandate.mandate_id
            /\ receipt.amount_paid = mandate.amount

\* a completed flow whose ids and amounts chain from the cart onwards
C18_Witness ==
    /\ CompletedFlow
    /\ pc = "done"
    /\ mandates.cart[1].intent_id = mandates.intent[1].intent_id
    /\ mandates.receipt[1].amount_paid = mandates.cart[1].total

-----------------------------------------------------------------------------
(* The catalog holder *)

\* C19: whatever the interleaving of concurrent callers of get_hybrid_service,
\* HybridDataService is constructed at most once and every caller receives the
\* same instance.
C19_ConstructedOnceAndShared ==
    strategy = "singleton" =>
        /\ Len(constructed) <= 1
        /\ \A t, u \in 1..Len(callers) :
              (callers[t].pc = "done" /\ callers[u].pc = "done") =>
                  callers[t].result = callers[u].result

\* two callers have returned, having both found the holder empty
C19_Witness ==
    /\ strategy = "singleton"
    /\ Len(callers) >= 2
    /\ callers[1].pc = "done" /\ callers[2].pc = "done"
    /\ Len(constructed) = 2

\* the key the specification describes: the text before the first comma,
\* trimmed, then lower-cased
CityKey(destination) == Lower(Strip(SplitComma0(destination)))

\* the catalog destination a lookup is to be answered from: the named one if
\* the catalog has it, the default destination otherwise
Resolved(catalog, destination) ==
    IF CityKey(destination) \in DOMAIN catalog THEN CityKey(destination) ELSE << L("tokyo") >>

\* what the lookup l returns when asked for a catalog key itself
AnswerFor(l) ==
    IF l.fn = "get_flights" THEN get_flights(Resolved(MOCK_FLIGHTS, l.destination), l.preference)
    ELSE IF l.fn = "get_hotels" THEN get_hotels(Resolved(MOCK_HOTELS, l.destination), l.preference)
    ELSE get_activities(Resolved(MOCK_ACTIVITIES, l.destination), l.interests, 10)

\* C20: a lookup resolves its destination by the text before the first comma,
\* trimmed and lower-cased; every destination string is answered without an
\* exception, and one that matches no catalog entry is answered with the
\* default destination's (Tokyo's) data for the same preference or interests.
C20_DestinationResolvedOrDefault ==
    strategy = "lookup" =>
        \A i \in 1..Len(lookups) : lookups[i].result = AnswerFor(lookups[i])

\* an unknown destination and a padded, capitalised one have been looked up
C20_Witness ==
    /\ strategy = "lookup" /\ Len(lookups) = 2
    /\ lookups[1].fn = "get_flights" /\ lookups[1].destination = << W("nowhereville") >>
    /\ lookups[1].result = MOCK_FLIGHTS[<< L("tokyo") >>]
    /\ lookups[2].fn = "get_hotels"
    /\ lookups[2].destination = << Space, W("paris"), Space, Comma, W("france") >>
    /\ lookups[2].result # << >>
    /\ \A i \in 1..Len(lookups[2].result) :
          \E j \in 1..Len(MOCK_HOTELS[<< L("paris") >>]) :
              lookups[2].result[i] = MOCK_HOTELS[<< L("paris") >>][j]

-----------------------------------------------------------------------------
(* Preference filtering *)

\* the catalog list a flight or hotel lookup filters
CatalogListOf(l) ==
    IF l.fn = "get_flights"
    THEN DictGet(MOCK_FLIGHTS, CityKey(l.destination), MOCK_FLIGHTS[<< L("tokyo") >>])
    ELSE DictGet(MOCK_HOTELS, CityKey(l.destination), MOCK_HOTELS[<< L("tokyo") >>])

PriceOf(l, item) == IF l.fn = "get_flights" THEN item.price ELSE item.price_per_night

\* the items of a list, as a set
ItemsOf(list) == { list[i] : i \in 1..Len(list) }

\* result holds the n lowest-priced items of list
CheapestOf(l, result, list, n) ==
    /\ Len(result) = Min(n, Len(list))
    /\ Cardinality(ItemsOf(result)) = Len(result)
    /\ ItemsOf(result) \subseteq ItemsOf(list)
    /\ \A r \in ItemsOf(result), o \in ItemsOf(list) \ ItemsOf(result) :
           PriceOf(l, r) <= PriceOf(l, o)

\* result holds the n highest-priced items of list
DearestOf(l, result, list, n) ==
    /\ Len(result) = Min(n, Len(list))
    /\ Cardinality(ItemsOf(result)) = Len(result)
    /\ ItemsOf(result) \subseteq ItemsOf(list)
    /\ \A r \in ItemsOf(result), o \in ItemsOf(list) \ ItemsOf(result) :
           PriceOf(l, r) >= PriceOf(l, o)

\* result is a run of consecutive items of list in ascending price order
SliceOfPriceSorted(l, result, list) ==
    /\ ItemsOf(result) \subseteq ItemsOf(list)
    /\ \A i \in 1..(Len(result) - 1) : PriceOf(l, result[i]) <= PriceOf(l, result[i + 1])
    /\ \A o \in ItemsOf(list) \ ItemsOf(result) :
           \A r1, r2 \in ItemsOf(result) :
               ~(PriceOf(l, r1) < PriceOf(l, o) /\ PriceOf(l, o) < PriceOf(l, r2))

\* C21: get_flights and get_hotels return the cheapest 2 items of the
\* destination's list for preference 'budget', the most expensive 2 for
\* 'luxury', and for any other preference a middle slice of the list sorted by
\* price.
C21_PreferenceFiltering ==
    strategy = "lookup" =>
        \A i \in 1..Len(lookups) :
            lookups[i].fn \in { "get_flights", "get_hotels" } =>
                LET l == lookups[i]
                    list == CatalogListOf(l)
                IN  /\ l.preference = "budget" => CheapestOf(l, l.result, list, 2)
                    /\ l.preference = "luxury" => DearestOf(l, l.result, list, 2)
                    /\ l.preference \notin { "budget", "luxury" } =>
                          SliceOfPriceSorted(l, l.result, list)

\* a mid-range flight lookup has returned the destination's whole list, in
\* catalog order, and a mid-range hotel lookup the second and third cheapest
C21_Witness ==
    /\ strategy = "lookup" /\ Len(lookups) = 2
    /\ lookups[1].fn = "get_hotels" /\ lookups[1].preference = "mid-range"
    /\ Len(lookups[1].result) = 2
    /\ SliceOfPriceSorted(lookups[1], lookups[1].result, CatalogListOf(lookups[1]))
    /\ lookups[2].fn = "get_flights" /\ lookups[2].preference = "mid-range"
    /\ lookups[2].result = MOCK_FLIGHTS[<< L("tokyo") >>]

-----------------------------------------------------------------------------
(* Activity lookup *)

\* the first two activities the destination's catalog lists under the interest
FirstTwoOfCategory(destination, interest) ==
    Slice(DictGet(MOCK_ACTIVITIES[Resolved(MOCK_ACTIVITIES, destination)],
                  Lower(interest), << >>), 0, 2)

\* C22: get_activities(destination, interests, max_count) returns, in the order
\* of the interest list, at most the first 2 activities of each interest's
\* category, concatenated and cut to max_count items; an interest without a
\* category contributes nothing; the result has at most min(max_count, 2 x
\* number of interests) items.
C22_TwoPerInterestInOrder ==
    (strategy = "snapshot" /\ lookups # << >>) =>
        LET l == lookups[1]
            perInterest == [i \in 1..Len(l.interests) |->
                               FirstTwoOfCategory(l.destination, l.interests[i])]
        IN  /\ l.result = Slice(Concat(perInterest), 0, l.max_count)
            /\ Len(l.result) <= Min(l.max_count, 2 * Len(l.interests))

\* with a snapshot holding three Tokyo activities, a lookup for the one
\* interest 'food' has returned three activities
C22_Witness ==
    /\ strategy = "snapshot" /\ lookups # << >>
    /\ constructed[1].using_real_data
    /\ lookups[1].destination = << W("tokyo"), Comma, Space, W("japan") >>
    /\ lookups[1].interests = << << L("food") >> >>
    /\ lookups[1].max_count = 10
    /\ Len(lookups[1].result) = 3

-----------------------------------------------------------------------------
(* Budget overrun *)

\* the returned itinerary costs more than the budget
Overrun == HasItinerary /\ TheItinerary.actual_cost > TheItinerary.total_budget

\* C23: in every strategy an itinerary whose actual_cost exceeds total_budget is
\* returned with within_budget = false, and the overrun alone puts nothing into
\* the response's errors and does not make its status 'failure' or 'error'.
C23_OverrunIsNotAnError ==
    Overrun =>
        /\ ~TheItinerary.within_budget
        /\ \A i \in 1..Len(response[1].errors) : response[1].errors[i] # "Budget exceeded"
        /\ (IsSome(TheItinerary.flights) /\ IsSome(TheItinerary.hotel)) =>
               response[1].status \notin { "failure", "error" }

\* the monolithic strategy has returned a complete itinerary over budget
C23_Witness ==
    /\ Overrun /\ strategy = "single"
    /\ IsSome(TheItinerary.flights) /\ IsSome(TheItinerary.hotel)
    /\ TheItinerary.activities # << >>
    /\ ~TheItinerary.within_budget
    /\ response[1].errors = << "Budget exceeded" >>
    /\ response[1].status = "failure"

-----------------------------------------------------------------------------
(* Cancellation *)

\* C24: once the consumer has closed a stream, no further event is emitted and
\* no later step runs: no reasoning call, no tool call, no mandate step; an AP2
\* stream closed before its transaction step never produces a receipt and its
\* wallet balance stays as it was; no 'error' (or 'result') event is emitted for
\* the cancellation.
C24_ClosedStreamDoesNothingMore ==
    /\ [](pc = "closed" => \A i \in 1..Len(events) : events[i].type = "log")
    /\ [][pc = "closed" =>
             /\ pc' = "closed"
             /\ events' = events
             /\ calls' = calls
             /\ response' = response
             /\ mandates' = mandates
             /\ mock_wallet_balance' = mock_wallet_balance
             /\ total_price' = total_price]_vars

\* an AP2 stream closed at the payment-mandate event of an authorized payment:
\* the transaction step was next
C24_Witness ==
    /\ strategy = "ap2_stream" /\ pc = "closed"
    /\ Len(events) = 4
    /\ events[4] = PaymentEvent(mandates.mandate[1])
    /\ mandates.mandate[1].status = "authorized"
    /\ mandates.receipt = None
    /\ mock_wallet_balance = BalanceAtCheck

-----------------------------------------------------------------------------
(* Request validation *)

\* no pipeline step has run: no catalog lookup, no reasoning or tool call, no
\* mandate, no event, no response
NothingRan ==
    /\ events = << >> /\ calls = << >> /\ execution_logs = << >>
    /\ flights = << >> /\ hotels = << >> /\ activities = << >>
    /\ \A h \in AllHotels : total_price[h] = 0
    /\ mandates = NoMandates
    /\ response = None /\ tool_result = None /\ costs = None

\* C25: a request with duration_days outside 1..30, budget <= 0 or travelers
\* outside 1..10 is rejected before any pipeline step runs (no lookup, no
\* reasoning call, no event), and every request that reaches a strategy has
\* budget > 0, 1 <= duration_days <= 30 and 1 <= travelers <= 10.
C25_InvalidRequestsNeverReachAStrategy ==
    /\ ( \/ request.duration_days < 1 \/ request.duration_days > 30
         \/ request.budget <= 0
         \/ request.travelers < 1 \/ request.travelers > 10 ) =>
           (pc \in { "received", "rejected" } /\ NothingRan)
    /\ pc \notin { "received", "rejected" } =>
           /\ request.budget > 0
           /\ 1 <= request.duration_days /\ request.duration_days <= 30
           /\ 1 <= request.travelers /\ request.travelers <= 10
    /\ pc \in { "received", "rejected" } => NothingRan

\* a 31-day request has been rejected
C25_Witness ==
    /\ pc = "rejected"
    /\ request.duration_days = 31 /\ request.budget > 0 /\ request.travelers = 1
    /\ NothingRan

-----------------------------------------------------------------------------
(* Selected activities *)

\* sub can be obtained from seq by leaving items out, keeping the order
RECURSIVE IsSubsequence(_, _)
IsSubsequence(sub, seq) ==
    IF sub = << >> THEN TRUE
    ELSE IF seq = << >> THEN FALSE
    ELSE IF Head(sub) = Head(seq) THEN IsSubsequence(Tail(sub), Tail(seq))
    ELSE IsSubsequence(sub, Tail(seq))

\* C26: every itinerary returned by any strategy lists at most 6 selected
\* activities, in the order of the candidate list the catalog returned.
C26_AtMostSixActivitiesInCatalogOrder ==
    HasItinerary =>
        /\ Len(TheItinerary.activities) <= 6
        /\ IsSubsequence(TheItinerary.activities, activities)

\* eight candidates, all of them named by the reasoning text, six listed
C26_Witness ==
    /\ HasItinerary /\ strategy = "multi"
    /\ Len(activities) = 8
    /\ response_text = JoinNames(ItemNames(activities))
    /\ Len(TheItinerary.activities) = 6
    /\ TheItinerary.activities = Slice(activities, 0, 6)

-----------------------------------------------------------------------------
(* Empty candidate lists *)

\* plan_trip has returned and none of its reasoning calls raised
ReturnedWithoutCallFailure ==
    /\ strategy = "multi" /\ pc = "done"
    /\ IsSome(response)
    /\ \A e \in Exceptions : response[1].message # << "Real orchestration failed: ", e >>

\* C27: when the catalog returns an empty hotel (or flight) list for a valid
\* request, the single-selection parse returns an absent result and the
\* synchronous specialist-routed plan_trip still returns a successful response
\* whose itinerary has that component absent and its cost_breakdown entry 0.
C27_EmptyCandidateListIsNotFatal ==
    (ReturnedWithoutCallFailure /\ (hotels = << >> \/ flights = << >>)) =>
        /\ hotels = << >> => selected_hotel = None
        /\ flights = << >> => selected_flight = None
        /\ response[1].success
        /\ IsSome(response[1].itinerary)
        /\ hotels = << >> =>
              /\ response[1].itinerary[1].hotel = None
              /\ response[1].itinerary[1].cost_breakdown.accommodation = 0
        /\ flights = << >> =>
              /\ response[1].itinerary[1].flights = None
              /\ response[1].itinerary[1].cost_breakdown.flights = 0

\* Paris has one hotel and the mid-range slice of it is empty: the parse has
\* returned None and plan_trip has returned its failure response
C27_Witness ==
    /\ ReturnedWithoutCallFailure
    /\ DestKey(request.destination) = << L("paris") >>
    /\ request.hotel_preference = "mid-range"
    /\ hotels = << >>
    /\ selected_hotel = None
    /\ calls = << "FlightExpert", "HotelExpert" >>
    /\ ~response[1].success
    /\ response[1].message = << "Real orchestration failed: ", "AttributeError" >>

-----------------------------------------------------------------------------
(* The wallet of one orchestrator instance *)

\* C28: for one AP2Orchestrator instance, whatever the interleaving of its
\* runs, mock_wallet_balance is never negative, and it changes only when a run
\* executes its transaction, by exactly the amount that run's receipt records
\* (so it always is the initial balance minus the amounts of the executed
\* transactions).
C28_WalletNeverNegative ==
    /\ [](strategy = "ap2_stream" => mock_wallet_balance >= 0)
    /\ [][(strategy = "ap2_stream" /\ mock_wallet_balance' # mock_wallet_balance) =>
             /\ mandates.receipt = None
             /\ IsSome(mandates'.receipt)
             /\ suspended' = suspended
             /\ mock_wallet_balance' = mock_wallet_balance - mandates'.receipt[1].amount_paid]_vars

\* both runs were authorized against the same balance and both have executed
\* their transaction
C28_Witness ==
    /\ strategy = "ap2_stream" /\ IsSome(suspended)
    /\ IsSome(mandates.receipt) /\ IsSome(suspended[1].mandates.receipt)
    /\ mandates.mandate[1].status = "authorized"
    /\ suspended[1].mandates.mandate[1].status = "authorized"
    /\ mock_wallet_balance < 0

-----------------------------------------------------------------------------
(* The whole budget is always spent in the streams *)

RemainderStrategies == { "multi_stream", "strands_stream" }

\* the five costs add up to the budget, whatever the sign of the remainder
SpendsWholeBudget(budget, cb) ==
    /\ cb.food + cb.misc = Remaining(budget, cb)
    /\ TotalCost(cb) = budget
    /\ WithinBudget(TotalCost(cb), budget)

\* C29: in plan_trip_stream of the specialist-routed and of the tool-based
\* strategy, and in the calculate_budget_breakdown tool, food + misc equals
\* total_budget - (flights + hotel + activities) whatever its sign; so the total
\* equals the budget, the within-budget test that chooses the budget log message
\* is true, and every itinerary in a result has actual_cost = total_budget and
\* within_budget = TRUE. Amounts are exact (thousandths), as the claim stipulates.
C29_StreamsSpendExactlyTheBudget ==
    /\ (strategy \in RemainderStrategies /\ IsSome(costs)) =>
          SpendsWholeBudget(request.budget, costs[1])
    /\ (strategy \in RemainderStrategies /\ HasItinerary) =>
          /\ SpendsWholeBudget(TheItinerary.total_budget, TheItinerary.cost_breakdown)
          /\ TheItinerary.actual_cost = TheItinerary.total_budget
          /\ TheItinerary.within_budget
    /\ IsSome(tool_result) =>
          /\ SpendsWholeBudget(tool_result[1].total_budget, tool_result[1].breakdown)
          /\ tool_result[1].total_cost = tool_result[1].total_budget
          /\ tool_result[1].within_budget

\* a finished specialist-routed stream whose flights, hotel and activities cost
\* more than the budget: food + misc is the negative difference
C29_Witness ==
    /\ strategy = "multi_stream" /\ pc = "done" /\ HasItinerary
    /\ Remaining(TheItinerary.total_budget, TheItinerary.cost_breakdown) < 0
    /\ TheItinerary.cost_breakdown.food + TheItinerary.cost_breakdown.misc =
          Remaining(TheItinerary.total_budget, TheItinerary.cost_breakdown)
    /\ TheItinerary.actual_cost = TheItinerary.total_budget

-----------------------------------------------------------------------------
(* The mandate run's log buffer *)

\* the log events the run has yielded so far
EmittedLogs == SelectSeq(events, LAMBDA e : e.type = "log")

\* the recorded events the running for loop has not yielded yet
PendingLogs ==
    IF log_i < Len(execution_logs)
    THEN SubSeq(execution_logs, log_i + 1, Len(execution_logs)) ELSE << >>

\* what _log_event has been called with so far, in call order: once for the
\* header, once by each of steps 1 to 3 and twice by step 4
RecordedLogs ==
    (IF pc = "start" THEN << >> ELSE << LogEvent("AP2 Protocol") >>)
    \o (IF IsSome(mandates.intent) THEN << LogEvent("AP2 Intent Mandate") >> ELSE << >>)
    \o (IF IsSome(mandates.cart) THEN << LogEvent("AP2 Cart Mandate") >> ELSE << >>)
    \o (IF IsSome(mandates.mandate) THEN << PaymentEvent(mandates.mandate[1]) >> ELSE << >>)
    \o (IF IsSome(mandates.receipt)
        THEN << LogEvent("AP2 Transaction"), LogEvent("AP2 Receipt") >> ELSE << >>)

\* C30: in a run of plan_trip_with_ap2_stream on its own instance, the log events
\* yielded so far followed by the ones still waiting in execution_logs are exactly
\* the events _log_event recorded, in the order recorded (none twice, none out of
\* order); execution_logs is replaced only when all of it has been yielded, and
\* then holds only what the step just run recorded (the list was empty when the
\* step started); and the run ends only with nothing waiting (none dropped).
C30_RecordedEventsAreEmittedOnceInOrder ==
    /\ []((strategy = "ap2_stream" /\ pc # "done") =>
              EmittedLogs \o PendingLogs = RecordedLogs)
    /\ [][(strategy = "ap2_stream" /\ execution_logs' # execution_logs) =>
              /\ PendingLogs = << >>
              /\ pc' # "done" => RecordedLogs' = RecordedLogs \o execution_logs']_vars
    /\ [][(strategy = "ap2_stream" /\ pc # "done" /\ pc' = "done") =>
              /\ PendingLogs = << >>
              /\ EmittedLogs = RecordedLogs
              /\ EmittedLogs' = EmittedLogs]_vars

\* a finished paid run: the six recorded events, then the result
C30_Witness ==
    /\ strategy = "ap2_stream" /\ pc = "done" /\ IsSome(response)
    /\ events = << LogEvent("AP2 Protocol"), LogEvent("AP2 Intent Mandate"),
                   LogEvent("AP2 Cart Mandate"), PaymentEvent(mandates.mandate[1]),
                   LogEvent("AP2 Transaction"), LogEvent("AP2 Receipt"), ResultEvent >>

====
